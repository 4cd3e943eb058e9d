------------------------------- MODULE HssUlr -------------------------------
(***************************************************************************)
(* The S6a Update-Location-Request path of the HSS.                        *)
(*                                                                         *)
(* hss_ogs_diam_s6a_ulr_cb (src/src/hss/hss-fd-path.c) reads the profile   *)
(* with hss_db_subscription_data (src/src/hss/hss-context.c), which holds  *)
(* db_lock for one find and walks the BSON document key by key, and then   *)
(* builds the Update-Location-Answer.  The handler writes nothing to the   *)
(* store, so one ULR is one atomic step over the document it finds.        *)
(*                                                                         *)
(* Data abstraction.  A document keeps what the walk branches on: the      *)
(* UE-AMBR, and per PDN, in stored order, the "type", "ambr", "ue" and     *)
(* "pgw" fields, the last two as the sequence of their "addr"/"addr6"      *)
(* entries, each with whether ogs_ipsubnet parses it.  APN names, QCI,     *)
(* ARP and the scalar fields are copied unchanged by the code and are left *)
(* out; an address is "parsed" or not, its bytes are not kept.             *)
(***************************************************************************)
EXTENDS Integers, Sequences, SequencesExt

CONSTANTS
  Docs,      \* the documents a ULR may find for its IMSI
  NoDoc,     \* "no document for this IMSI"
  MaxSess    \* OGS_MAX_NUM_OF_SESS: PDN entries the profile can hold

VARIABLES
  doc,       \* the subscriber's document in the store
  ulr,       \* the last request: [skip] (ULR-Flags & SKIP_SUBSCRIBER_DATA)
  ula        \* the last answer sent, or NoAnswer

vars == <<doc, ulr, ula>>

NoAnswer == [result |-> "none"]
NoSub == [present |-> FALSE]
NoAmbr == [present |-> FALSE]

\* OGS_DIAM_PDN_TYPE_* (the stored "type") and OGS_GTP_PDN_TYPE_* (paa).
DiamV4 == 0
DiamV6 == 1
DiamV4V6 == 2
GtpV4 == 1
GtpV6 == 2
GtpV4V6 == 3

\* Bit rates are kept in units of 1024 bit/s (TLC's integers are 32-bit):
\* the store's "kb/s * 1024" is the stored number itself.  The
\* Max-Requested-Bandwidth-UL/DL AVPs are Unsigned32: val.u32 keeps the low
\* 32 bits of the 64-bit bit rate, i.e. the rate mod 2^22 in these units.
U32(x) == x % 4194304

\* The memset-zeroed ogs_pdn_t.
NoPdn == [pdnType |-> DiamV4, paa |-> 0, pgw4 |-> FALSE, pgw6 |-> FALSE,
          ambr |-> [uplink |-> 0, downlink |-> 0]]

(***************************************************************************)
(* hss_db_subscription_data.  The walk threads [pdn, rv]: rv starts at     *)
(* OGS_OK and every ogs_ipsubnet call overwrites it.                       *)
(***************************************************************************)

\* Seeded fault: a parsed address sets paa to its own family only.
UeAddr_overwrite(acc, e) ==
  IF ~e.ok THEN [acc EXCEPT !.rv = "ERROR"]
  ELSE [acc EXCEPT !.rv = "OK",
          !.pdn.paa = IF e.key = "addr" THEN GtpV4 ELSE GtpV6]

\* One entry of the "ue" subdocument: a parsed "addr" makes paa IPv4, or
\* IPv4v6 if it was IPv6, and "addr6" the other way round.
UeAddr(acc, e) ==
  IF ~e.ok THEN [acc EXCEPT !.rv = "ERROR"]
  ELSE [acc EXCEPT !.rv = "OK",
          !.pdn.paa =
            IF e.key = "addr" THEN (IF @ = GtpV6 THEN GtpV4V6 ELSE GtpV4)
                              ELSE (IF @ = GtpV4 THEN GtpV4V6 ELSE GtpV6)]

\* One entry of the "pgw" subdocument.
PgwAddr(acc, e) ==
  IF ~e.ok THEN [acc EXCEPT !.rv = "ERROR"]
  ELSE [acc EXCEPT !.rv = "OK",
          !.pdn.pgw4 = @ \/ e.key = "addr",
          !.pdn.pgw6 = @ \/ e.key = "addr6"]

\* One key of a PDN entry (the child2 loop).
PdnField(acc, f) ==
  CASE f.key = "type" -> [acc EXCEPT !.pdn.pdnType = f.val]
    [] f.key = "ambr" -> [acc EXCEPT !.pdn.ambr = [uplink |-> f.ul, downlink |-> f.dl]]
    [] f.key = "ue"   -> FoldLeft(UeAddr, acc, f.addrs)
    [] f.key = "pgw"  -> FoldLeft(PgwAddr, acc, f.addrs)

\* The "pdn" array (the child1 loop); pdn[pdn_index] starts zeroed.
PdnArray(rv, pdns) ==
  FoldLeft(LAMBDA acc, pd :
             LET r == FoldLeft(PdnField, [pdn |-> NoPdn, rv |-> acc.rv], pd)
             IN  [rv |-> r.rv, pdn |-> Append(acc.pdn, r.pdn)],
           [rv |-> rv, pdn |-> <<>>], pdns)

\* The whole call: a missing document is OGS_ERROR; otherwise the result
\* is whatever the last ogs_ipsubnet left in rv.
hss_db_subscription_data(d) ==
  IF d = NoDoc THEN [rv |-> "ERROR"]
  ELSE LET p == PdnArray("OK", d.pdn)
       IN  [rv |-> p.rv,
            data |-> [ambr |-> [uplink |-> d.ambr.ul, downlink |-> d.ambr.dl],
                      pdn |-> p.pdn]]

(***************************************************************************)
(* The answer, as hss_ogs_diam_s6a_ulr_cb builds it.                       *)
(***************************************************************************)

Bandwidth(a) == [present |-> TRUE, ul |-> U32(a.uplink), dl |-> U32(a.downlink)]

\* Seeded fault: Context-Identifier from the 0-based index.
ApnConfiguration_zero_based(i, p) ==
  [contextId |-> i - 1,
   pdnType   |-> p.pdnType,
   served    |-> {f \in {"v4", "v6"} :
                    IF f = "v4"
                    THEN p.pdnType \in {DiamV4, DiamV4V6} /\ p.paa \in {GtpV4, GtpV4V6}
                    ELSE p.pdnType \in {DiamV6, DiamV4V6} /\ p.paa \in {GtpV6, GtpV4V6}},
   mip6      |-> {f \in {"v4", "v6"} : IF f = "v4" THEN p.pgw4 ELSE p.pgw6},
   ambr      |-> IF p.ambr.uplink # 0 \/ p.ambr.downlink # 0
                 THEN Bandwidth(p.ambr) ELSE NoAmbr]

\* One APN-Configuration (the loop over num_of_pdn).
ApnConfiguration(i, p) ==
  [contextId |-> i,
   pdnType   |-> p.pdnType,
   served    |-> {f \in {"v4", "v6"} :
                    IF f = "v4"
                    THEN p.pdnType \in {DiamV4, DiamV4V6} /\ p.paa \in {GtpV4, GtpV4V6}
                    ELSE p.pdnType \in {DiamV6, DiamV4V6} /\ p.paa \in {GtpV6, GtpV4V6}},
   mip6      |-> {f \in {"v4", "v6"} : IF f = "v4" THEN p.pgw4 ELSE p.pgw6},
   ambr      |-> IF p.ambr.uplink # 0 \/ p.ambr.downlink # 0
                 THEN Bandwidth(p.ambr) ELSE NoAmbr]

SubscriptionDataAvp(d) ==
  [present |-> TRUE,
   ambr    |-> Bandwidth(d.ambr),
   apns    |-> [i \in 1 .. Len(d.pdn) |-> ApnConfiguration(i, d.pdn[i])]]

hss_ogs_diam_s6a_ulr_cb(d, skip) ==
  LET s == hss_db_subscription_data(d) IN
  IF s.rv # "OK"
  THEN [result |-> "USER_UNKNOWN", ulaFlags |-> 0, sub |-> NoSub]
  ELSE [result |-> "SUCCESS", ulaFlags |-> 1,
        sub |-> IF skip THEN NoSub ELSE SubscriptionDataAvp(s.data)]

(***************************************************************************)
(* What the answer should carry (spec 4.5.2, TS 29.272 7.3.35), read off   *)
(* the document directly rather than by walking it.                       *)
(***************************************************************************)

Families(t) == CASE t = DiamV4   -> {"v4"}
                 [] t = DiamV6   -> {"v6"}
                 [] t = DiamV4V6 -> {"v4", "v6"}

FieldOf(pd, k) == {pd[j] : j \in {j \in DOMAIN pd : pd[j].key = k}}

\* The address families of the entries of subdocument k that parse.
Parsed(pd, k) ==
  {IF e.key = "addr" THEN "v4" ELSE "v6" :
     e \in {e \in UNION {ToSet(f.addrs) : f \in FieldOf(pd, k)} : e.ok}}

\* kb/s times 1024, in units of 1024 bit/s.
RefAmbr(a) == [present |-> TRUE, ul |-> a.ul, dl |-> a.dl]

RefApn(i, pd) ==
  LET t == (CHOOSE f \in FieldOf(pd, "type") : TRUE).val
      a == CHOOSE f \in FieldOf(pd, "ambr") : TRUE
  IN  [contextId |-> i,
       pdnType   |-> t,
       served    |-> Parsed(pd, "ue") \cap Families(t),
       mip6      |-> Parsed(pd, "pgw"),
       ambr      |-> IF a.ul + a.dl > 0 THEN RefAmbr(a) ELSE NoAmbr]

RefSub(d) == [present |-> TRUE, ambr |-> RefAmbr(d.ambr),
              apns |-> [i \in 1 .. Len(d.pdn) |-> RefApn(i, d.pdn[i])]]

Apn == [contextId : 1 .. MaxSess, pdnType : {DiamV4, DiamV6, DiamV4V6},
        served : SUBSET {"v4", "v6"}, mip6 : SUBSET {"v4", "v6"},
        ambr : {NoAmbr} \cup [present : {TRUE}, ul : 0 .. 4194303,
                                                dl : 0 .. 4194303]]

\* Every answer is a USER_UNKNOWN without Subscription-Data or a success
\* with ULA-Flags 1 and at most OGS_MAX_NUM_OF_SESS APN configurations,
\* numbered from 1.
TypeOK ==
  /\ ulr \in [skip : BOOLEAN]
  /\ \/ ula = NoAnswer
     \/ ula.result = "USER_UNKNOWN" /\ ula.sub = NoSub
     \/ /\ ula.result = "SUCCESS" /\ ula.ulaFlags = 1
        /\ \/ ula.sub = NoSub
           \/ /\ {ula.sub.ambr.ul, ula.sub.ambr.dl} \subseteq 0 .. 4194303
              /\ Len(ula.sub.apns) <= MaxSess
              /\ \A i \in DOMAIN ula.sub.apns : ula.sub.apns[i] \in Apn

\* A success ULA is sent only for a stored subscriber, and unless the MME
\* asked to skip it, its Subscription-Data is the stored profile: one
\* APN-Configuration per stored PDN in stored order, Context-Identifier
\* index+1, a Served-Party-IP-Address for each family of the UE's parsed
\* addresses the PDN type allows, a MIP6 home-agent address per parsed PGW
\* address, AMBRs in bit/s.  It is about the key-by-key walk of
\* hss_db_subscription_data, whose paa type depends on the order of
\* "addr" and "addr6" and on which of them parsed.
UlaFaithful ==
  ula.result = "SUCCESS" =>
     /\ doc # NoDoc
     /\ ula.sub = IF ulr.skip THEN NoSub ELSE RefSub(doc)

Init ==
  /\ doc \in Docs
  /\ ulr = [skip |-> FALSE]
  /\ ula = NoAnswer

\* An MME's ULR for the subscriber, with or without SKIP_SUBSCRIBER_DATA.
Ulr ==
  \E skip \in BOOLEAN :
     /\ ulr' = [skip |-> skip]
     /\ ula' = hss_ogs_diam_s6a_ulr_cb(doc, skip)
     /\ UNCHANGED doc

Next == Ulr

Spec == Init /\ [][Next]_vars

=============================================================================
