\* Every payload layering up to gzip inside base64, and every v2 input of
\* the normaliser in the three accepted encodings.
CONSTANTS
    Payloads <- MCPayloads
    V2Inputs <- MCV2Inputs
    Nil = Nil

SPECIFICATION Spec
INVARIANT TypeOK
INVARIANT DecodesTheThreeEncodings
INVARIANT FilesLastWins
INVARIANT DropinsMerged
INVARIANT UsersMerged
