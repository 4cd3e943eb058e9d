---------------------------- MODULE AbstractAir ----------------------------
(***************************************************************************)
(* What the HSS's S6a Authentication-Information service promises to its  *)
(* peers, with no store, no lock and no intermediate step: a dispatch      *)
(* thread takes one request, and answers it in one step, for the IMSI it   *)
(* asked about; a success answer carries a vector that no earlier success *)
(* answer for that subscriber carried.  (That every request is answered   *)
(* is HssAir's AnswerEventually.)                                          *)
(*                                                                         *)
(* HssAir implements it (AirRefinement) for one dispatch thread and a     *)
(* store that does not fail.                                              *)
(***************************************************************************)
EXTENDS Sequences, SequencesExt

CONSTANTS
  Workers,   \* dispatch threads
  Imsis,     \* IMSIs a request may name
  NoImsi     \* a thread that holds no request

VARIABLES
  busy,      \* busy[w]: the IMSI of w's request, or NoImsi
  answers    \* answers sent: [imsi, ok, av], in order

avars == <<busy, answers>>

Init ==
  /\ busy = [w \in Workers |-> NoImsi]
  /\ answers = <<>>

\* The vector of a success answer is new for its subscriber.
FreshFor(a) ==
  a.ok => \A j \in 1 .. Len(answers) :
            (answers[j].ok /\ answers[j].imsi = a.imsi) => answers[j].av # a.av

Request(w) ==
  /\ busy[w] = NoImsi
  /\ \E i \in Imsis : busy' = [busy EXCEPT ![w] = i]
  /\ UNCHANGED answers

\* Exactly one answer is appended, for w's IMSI.
Answer(w) ==
  /\ busy[w] # NoImsi
  /\ busy' = [busy EXCEPT ![w] = NoImsi]
  /\ Len(answers') = Len(answers) + 1
  /\ SubSeq(answers', 1, Len(answers)) = answers
  /\ Last(answers').imsi = busy[w]
  /\ FreshFor(Last(answers'))

Next == \E w \in Workers : Request(w) \/ Answer(w)

Spec == Init /\ [][Next]_avars

=============================================================================
