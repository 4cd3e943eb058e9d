------------------------------ MODULE MCHssAir ------------------------------
(***************************************************************************)
(* Instances of HssAir for TLC.  SQN is 8 bits wide instead of 48 so that  *)
(* a subscriber provisioned near the top of the range wraps within a few   *)
(* AIRs; the arithmetic (+32, +33, the mask) is the code's.                *)
(***************************************************************************)
EXTENDS HssAir

CONSTANTS w1, w2, h1, h2, imsiA, imsiB, imsiR, imsiU

\* Five values provisioned, at most two fresh ones per AIR.
MCRands == 1 .. 16

OneWorker == {w1}
TwoWorkers == {w1, w2}
OneInstance1 == [w \in OneWorker |-> h1]
\* Both threads in one HSS process: they share db_lock.
SharedInstance == [w \in TwoWorkers |-> h1]
\* One thread in each of two HSS processes over the same collection.
SplitInstance == [w \in TwoWorkers |-> IF w = w1 THEN h1 ELSE h2]

AllImsis == {imsiA, imsiB, imsiR, imsiU}

\* A vector a peer pre-computed for the remote subscriber (stored RAND k,
\* SQN 16*k, derived for the serving network).
PeerEntry(k) == [rand |-> k, sqn |-> 16 * k,
                 av |-> [rand |-> k, sqn |-> 16 * k, snid |-> VisitedPlmn]]

Local(rand, sqn) == [remote |-> FALSE, rand |-> rand, sqn |-> sqn, avs |-> <<>>]
Remote(pool) == [remote |-> TRUE, rand |-> 5, sqn |-> 0, avs |-> pool]

\* imsiA never authenticated (RAND all zero), imsiB one AIR before its
\* SQN wraps, imsiR served from a three-vector pool, imsiU unprovisioned.
DbMixed ==
  [i \in {imsiA, imsiB, imsiR} |->
     CASE i = imsiA -> Local(Zero, 0)
       [] i = imsiB -> Local(1, 224)
       [] i = imsiR -> Remote(<<PeerEntry(6), PeerEntry(7), PeerEntry(8)>>)]

\* One local subscriber and a remote one with a single pooled vector.
DbSmall ==
  [i \in {imsiA, imsiR} |->
     IF i = imsiA THEN Local(1, 0) ELSE Remote(<<PeerEntry(6)>>)]

\* One remote subscriber with two pooled vectors.
DbPool2 == [i \in {imsiR} |-> Remote(<<PeerEntry(6), PeerEntry(7)>>)]

\* One local subscriber.
DbLocal == [i \in {imsiA} |-> Local(1, 0)]

Ok(s) == [sqnMs |-> s, macOk |-> TRUE]
Bad(s) == [sqnMs |-> s, macOk |-> FALSE]

\* The USIM of imsiA reports SQN_MS 0 with a good or a forged MAC_S, that
\* of imsiB a SQN_MS below the HSS's; imsiR's resynchronises correctly.
ResyncMixed ==
  [i \in AllImsis |->
     CASE i = imsiA -> {Ok(0), Bad(64)}
       [] i = imsiB -> {Ok(200)}
       [] i = imsiR -> {Ok(0)}
       [] OTHER -> {}]

ResyncNone == [i \in AllImsis |-> {}]
ResyncGood == [i \in AllImsis |-> {Ok(0)}]
ResyncBad == [i \in AllImsis |-> {Bad(0)}]

=============================================================================
