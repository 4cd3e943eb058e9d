------------------------------ MODULE MCHssUlr ------------------------------
(***************************************************************************)
(* Documents for HssUlr: no document, or a UE-AMBR and up to MaxSess PDN   *)
(* entries whose fields come in the order the provisioning tool writes     *)
(* them (type, ambr, ue, pgw).  The "ue" and "pgw" subdocuments hold each  *)
(* of "addr" and "addr6" at most once, in either order, parsing or not.    *)
(***************************************************************************)
EXTENDS HssUlr

CONSTANTS
  Ambrs,     \* <<uplink, downlink>> kb/s pairs of the stored AMBRs
  PgwDocs    \* the "pgw" subdocuments used (a subset of AddrDocs)

\* No AMBR, and spec 8's example ({1000, 5000} kb/s).
MCAmbrs == {<<0, 0>>, <<1000, 5000>>}

Entries == [key : {"addr", "addr6"}, ok : BOOLEAN]

\* "ue"/"pgw" subdocuments: each key at most once, in stored order.
AddrDocs ==
  {<<>>} \cup {<<e>> : e \in Entries}
         \cup {p \in {<<e1, e2>> : e1, e2 \in Entries} : p[1].key # p[2].key}

\* PGW subdocuments: none, an IPv4 address, an IPv6 one that does not
\* parse, and both families.
MCPgwDocs ==
  {<<>>,
   <<[key |-> "addr", ok |-> TRUE]>>,
   <<[key |-> "addr6", ok |-> FALSE]>>,
   <<[key |-> "addr", ok |-> TRUE], [key |-> "addr6", ok |-> TRUE]>>}

PdnDocs ==
  {<<[key |-> "type", val |-> t],
     [key |-> "ambr", ul |-> a[1], dl |-> a[2]],
     [key |-> "ue", addrs |-> ue],
     [key |-> "pgw", addrs |-> pgw]>> :
       t \in {DiamV4, DiamV6, DiamV4V6}, a \in Ambrs,
       ue \in AddrDocs, pgw \in PgwDocs}

MCDocs ==
  {NoDoc} \cup {[ambr |-> [ul |-> a[1], dl |-> a[2]], pdn |-> ps] :
                  a \in Ambrs, ps \in SeqOf(PdnDocs, MaxSess)}

====
