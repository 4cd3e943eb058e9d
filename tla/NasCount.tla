------------------------------ MODULE NasCount ------------------------------
(***************************************************************************)
(* NAS COUNT handling of the MME (src/src/mme/nas-security.c).            *)
(*                                                                         *)
(* nas_security_decode rebuilds the 24-bit uplink NAS COUNT of a received  *)
(* message from mme_ue->ul_count {overflow (16 bits), sqn (8 bits)} and    *)
(* the message's sequence number: 8 bits in the security header, 5 bits   *)
(* in a SERVICE REQUEST.  The MAC is computed over that estimate, so a     *)
(* message verifies iff the estimate equals the COUNT the UE used (and     *)
(* the key is the one the UE used).  nas_security_encode of a Security    *)
(* Mode Command ("new security context") zeroes dl_count and ul_count.     *)
(*                                                                         *)
(* Environment: the UE numbers its uplink messages (TS 24.301) and resets  *)
(* its COUNT on a Security Mode Command; the radio/S1 path may lose        *)
(* messages and delivers the rest in order.  security_context_available  *)
(* stands for "an integrity algorithm other than EIA0 is selected": both  *)
(* are set by the first Security Mode Command.                             *)
(***************************************************************************)
EXTENDS Integers, Sequences, SequencesExt

CONSTANTS
  StartCounts,  \* UL COUNT values the UE may have reached in the current context
  MaxSent,      \* bound: uplink messages the UE sends
  MaxSmc,       \* bound: Security Mode Commands the MME sends
  StartDl,      \* dl_count values the MME may have reached
  MaxDl,        \* bound: other protected downlink messages the MME sends
  Gaps,         \* COUNT steps between two uplink messages the MME sees
  Crossing      \* TRUE iff uplink messages of the old context may reach
                \* the MME after it sent a Security Mode Command

CountMod == 2 ^ 24       \* NAS COUNT: overflow (16 bits) and sqn (8 bits)
OverflowMod == 2 ^ 16

\* ul_count.i32 as a COUNT (the spare byte is always 0)
Count(ovf, sqn) == ovf * 256 + sqn

VARIABLES
  ueUl,        \* the UE's next uplink COUNT
  ueCtx,       \* the security context (key) the UE protects with
  sent,        \* uplink messages sent so far
  inflight,    \* uplink messages on the way, oldest first
  smcPending,  \* a Security Mode Command is on its way to the UE
  mmeCtx,      \* the security context the MME verifies with
  ulOverflow,  \* mme_ue->ul_count.overflow
  ulSqn,       \* mme_ue->ul_count.sqn
  dlCount,     \* mme_ue->dl_count
  dlSent,      \* downlink messages sent so far (other than SMC)
  secAvail,    \* mme_ue->security_context_available
  highest,     \* history: highest COUNT delivered in the MME's context
  delivered    \* history: every decode, in order

vars == <<ueUl, ueCtx, sent, inflight, smcPending, mmeCtx, ulOverflow,
          ulSqn, dlCount, dlSent, secAvail, highest, delivered>>

\* A message as sent: its COUNT, its context, whether it is a SERVICE
\* REQUEST (short header) and whether its header says "new security
\* context" (SECURITY MODE COMPLETE).
Msg(c, ctx, sr, new) == [count |-> c, ctx |-> ctx, sr |-> sr, new |-> new]

Init ==
  /\ secAvail \in BOOLEAN
  /\ ueUl \in IF secAvail THEN StartCounts ELSE {0}
  /\ ueCtx = 0 /\ mmeCtx = 0
  /\ sent = 0 /\ inflight = <<>> /\ smcPending = FALSE
  \* the MME has received COUNT ueUl - 1 (or nothing: ul_count is 0)
  /\ LET last == IF ueUl = 0 THEN 0 ELSE ueUl - 1 IN
       /\ ulOverflow = last \div 256
       /\ ulSqn = last % 256
       /\ highest = ueUl - 1
  /\ dlCount \in IF secAvail THEN StartDl ELSE {0}
  /\ dlSent = 0
  /\ delivered = <<>>

-----------------------------------------------------------------------------
(* The decoder *)

\* The COUNT the service-request branch estimates from the 5-bit sequence
\* number: the high 3 bits of ul_count.sqn, plus 0x20 (in uint8_t) when
\* the low 5 bits went backwards; overflow++ when sqn went backwards.
\* Seeded fault: the high 3 bits never advance past the 5-bit wrap.
SrEstimate_no_carry(sn) ==
  LET high == (ulSqn \div 32) * 32
      est  == sn + high
  IN [ovf |-> IF ulSqn > est THEN (ulOverflow + 1) % OverflowMod
              ELSE ulOverflow, sqn |-> est]

SrEstimate(sn) ==
  LET carry == IF ulSqn % 32 > sn THEN 32 ELSE 0
      high  == ((ulSqn \div 32) * 32 + carry) % 256
      est   == sn + high
      ovf  == IF ulSqn > est THEN (ulOverflow + 1) % OverflowMod
              ELSE ulOverflow
  IN [ovf |-> ovf, sqn |-> est]

\* The COUNT the protected-message branch estimates from the 8-bit
\* sequence number, after a "new security context" header zeroed it.
Estimate(sn, new) ==
  LET ovf0 == IF new THEN 0 ELSE ulOverflow
      sqn0 == IF new THEN 0 ELSE ulSqn
  IN [ovf |-> IF sqn0 > sn THEN (ovf0 + 1) % OverflowMod ELSE ovf0,
      sqn |-> sn]

\* nas_mac_calculate over the estimated COUNT with the MME's key equals
\* the MAC the UE computed.
MacOk(m, est) == Count(est.ovf, est.sqn) = m.count /\ m.ctx = mmeCtx

\* The delivery is one a correct receiver must accept: current context,
\* and at most Window(m) past the highest COUNT delivered before.
Window(m) == IF m.sr THEN 31 ELSE 255
Fresh(m) ==
  /\ m.ctx = mmeCtx
  /\ (m.count - highest) % CountMod \in 1 .. Window(m)

Record(m, est, ok) ==
  /\ delivered' = Append(delivered, [msg |-> m, ok |-> ok, fresh |-> Fresh(m)])
  /\ ulOverflow' = est.ovf
  /\ ulSqn' = est.sqn
  /\ highest' = IF ok /\ Fresh(m) THEN m.count ELSE highest

\* A message the decoder returns on without touching ul_count.
Unverified(m) ==
  /\ delivered' = Append(delivered, [msg |-> m, ok |-> FALSE, fresh |-> FALSE])
  /\ UNCHANGED <<ulOverflow, ulSqn, highest>>

\* nas_security_decode of a SERVICE REQUEST: without an integrity
\* algorithm (none is selected before the first Security Mode Command)
\* it returns OGS_ERROR; otherwise it estimates the COUNT and verifies
\* the short MAC (a mismatch only sets mac_failed).
NasDecodeServiceRequest(m) ==
  /\ m.sr
  /\ \/ /\ ~secAvail
        /\ Unverified(m)
     \/ /\ secAvail
        /\ LET est == SrEstimate(m.count % 32) IN Record(m, est, MacOk(m, est))

\* nas_security_decode of a protected message: without a security
\* context the header is ignored and nothing is verified; otherwise the
\* COUNT is estimated and the MAC verified.
NasDecodeProtected(m) ==
  /\ ~m.sr
  /\ \/ /\ ~secAvail
        /\ Unverified(m)
     \/ /\ secAvail
        /\ LET est == Estimate(m.count % 256, m.new) IN
             Record(m, est, MacOk(m, est))

NasDecode(m) == NasDecodeServiceRequest(m) \/ NasDecodeProtected(m)

-----------------------------------------------------------------------------
(* MME steps *)

\* The S1AP layer hands the oldest uplink message to nas_security_decode.
MmeReceive ==
  /\ inflight # <<>>
  /\ NasDecode(Head(inflight))
  /\ inflight' = Tail(inflight)
  /\ UNCHANGED <<ueUl, ueCtx, sent, smcPending, mmeCtx, dlCount, dlSent,
                 secAvail>>

\* nas_security_encode of a SECURITY MODE COMMAND (integrity protected
\* with new EPS security context): dl_count and ul_count are zeroed, the
\* message goes out with dl_count 0, dl_count becomes 1.
NasEncodeSmc ==
  /\ mmeCtx < MaxSmc
  /\ ~smcPending
  /\ Crossing \/ inflight = <<>>
  /\ mmeCtx' = mmeCtx + 1
  /\ ulOverflow' = 0 /\ ulSqn' = 0
  /\ dlCount' = 1
  /\ secAvail' = TRUE
  /\ smcPending' = TRUE
  /\ highest' = -1
  /\ UNCHANGED <<ueUl, ueCtx, sent, inflight, dlSent, delivered>>

\* Seeded fault: dl_count not masked to 24 bits.
NasEncode_unmasked ==
  /\ secAvail
  /\ dlSent < MaxDl
  /\ dlCount' = dlCount + 1
  /\ dlSent' = dlSent + 1
  /\ UNCHANGED <<ueUl, ueCtx, sent, inflight, smcPending, mmeCtx, ulOverflow,
                 ulSqn, secAvail, highest, delivered>>

\* Seeded fault: the new_security_context test dropped, every protected
\* downlink message zeroes the counts.
NasEncode_resets ==
  /\ secAvail
  /\ dlSent < MaxDl
  /\ dlCount' = 1 /\ ulOverflow' = 0 /\ ulSqn' = 0
  /\ dlSent' = dlSent + 1
  /\ UNCHANGED <<ueUl, ueCtx, sent, inflight, smcPending, mmeCtx, secAvail,
                 highest, delivered>>

\* nas_security_encode of any other protected downlink message.
NasEncode ==
  /\ secAvail
  /\ dlSent < MaxDl
  /\ dlCount' = (dlCount + 1) % CountMod
  /\ dlSent' = dlSent + 1
  /\ UNCHANGED <<ueUl, ueCtx, sent, inflight, smcPending, mmeCtx, ulOverflow,
                 ulSqn, secAvail, highest, delivered>>

-----------------------------------------------------------------------------
(* Environment *)

\* The UE sends an uplink message protected with its current COUNT; a
\* gap g stands for the g - 1 messages before it that were all lost.
UeSend ==
  /\ sent < MaxSent
  /\ Crossing \/ ~smcPending
  /\ \E sr \in BOOLEAN, g \in Gaps :
       LET c == (ueUl + g - 1) % CountMod IN
       /\ inflight' = Append(inflight, Msg(c, ueCtx, sr, FALSE))
       /\ ueUl' = (c + 1) % CountMod
  /\ sent' = sent + 1
  /\ UNCHANGED <<ueCtx, smcPending, mmeCtx, ulOverflow, ulSqn, dlCount, dlSent,
                 secAvail, highest, delivered>>

\* The UE takes the new context and answers SECURITY MODE COMPLETE with
\* COUNT 0 and the "new security context" header.
UeSmcComplete ==
  /\ smcPending
  /\ smcPending' = FALSE
  /\ ueCtx' = mmeCtx
  /\ inflight' = Append(inflight, Msg(0, mmeCtx, FALSE, TRUE))
  /\ ueUl' = 1
  /\ UNCHANGED <<sent, mmeCtx, ulOverflow, ulSqn, dlCount, dlSent, secAvail, highest,
                 delivered>>

\* A message is lost on the radio or S1 path.
Lose ==
  /\ \E k \in 1 .. Len(inflight) : inflight' = RemoveAt(inflight, k)
  /\ UNCHANGED <<ueUl, ueCtx, sent, smcPending, mmeCtx, ulOverflow, ulSqn,
                 dlCount, dlSent, secAvail, highest, delivered>>

Done ==
  /\ sent = MaxSent /\ inflight = <<>> /\ ~smcPending
  /\ UNCHANGED vars

Next ==
  \/ MmeReceive \/ NasEncodeSmc \/ NasEncode
  \/ UeSend \/ UeSmcComplete \/ Lose
  \/ Done

Spec == Init /\ [][Next]_vars


-----------------------------------------------------------------------------
(* Properties *)

TypeOK ==
  /\ ulOverflow \in 0 .. OverflowMod - 1
  /\ ulSqn \in 0 .. 255
  /\ dlCount \in 0 .. CountMod - 1
  /\ ueUl \in 0 .. CountMod - 1
  /\ secAvail \in BOOLEAN
  /\ \A k \in 1 .. Len(inflight) : inflight[k].count \in 0 .. CountMod - 1

UlCount == Count(ulOverflow, ulSqn)

\* A message a correct receiver must accept is accepted: the COUNT the
\* decoder estimates from 8 (or, for a SERVICE REQUEST, 5) sequence-number
\* bits and ul_count is the UE's whenever the message is at most 255 (31)
\* past the highest COUNT accepted in the context, across the sqn and
\* overflow wraps.
FreshMessageAccepted ==
  \A j \in 1 .. Len(delivered) : delivered[j].fresh => delivered[j].ok

\* ul_count never moves backwards (modulo 2^24) on a decode: the overflow
\* is incremented whenever the sequence number goes backwards.  Only a new
\* security context (SMC sent, or SECURITY MODE COMPLETE received) resets
\* it.
UlCountMonotonic ==
  [][\/ mmeCtx' # mmeCtx
     \/ Len(delivered') > Len(delivered) /\ Last(delivered').msg.new
     \/ (Count(ulOverflow', ulSqn') - UlCount) % CountMod < CountMod \div 2]_vars
=============================================================================
