\* One subscriber document per behaviour: absent, or a UE-AMBR and zero,
\* one or two PDN entries of every PDN type, with and without a per-APN
\* AMBR, every order and parse outcome of the UE's "addr"/"addr6", and
\* PGW addresses that parse, do not parse, or both families.
CONSTANTS
  NoDoc = NoDoc
  MaxSess = 2
  Docs <- MCDocs
  Ambrs <- MCAmbrs
  PgwDocs <- MCPgwDocs
SPECIFICATION Spec
INVARIANTS TypeOK UlaFaithful
