------------------------------- MODULE HssAir -------------------------------
(***************************************************************************)
(* The S6a Authentication-Information-Request path of the HSS.             *)
(*                                                                         *)
(* hss_ogs_diam_s6a_air_cb (src/src/hss/hss-fd-path.c) runs on the        *)
(* freeDiameter dispatch threads; every thread is a Worker.  It calls the  *)
(* subscriber-store functions of src/src/hss/hss-context.c, each of which  *)
(* takes the db_lock of its HSS process for that one call only.  One       *)
(* action per backend round-trip (a find, a $set, a $inc, a $bit, a $pop, *)
(* the $push loop); the handler's own code between two calls is folded     *)
(* into the action that follows the call it depends on.  Several HSS       *)
(* processes (Instance) may share the subscribers collection.              *)
(*                                                                         *)
(* Data abstraction: a RAND is a member of a small set, an authentication  *)
(* vector (AUTN, XRES, KASME) is identified by the (RAND, 48-bit SQN) pair *)
(* MILENAGE derived it from, and the MAC_S check of a resynchronisation    *)
(* is an input bit of the request.                                         *)
(***************************************************************************)
EXTENDS Integers, Sequences, SequencesExt, FiniteSets

CONSTANTS
  Workers,      \* freeDiameter dispatch threads of all HSS processes
  Instance,     \* Instance[w]: the HSS process whose db_lock thread w takes
  Imsis,        \* the IMSIs requests may name (provisioned or not)
  InitDb,       \* the provisioned subscriber documents, by IMSI
  Rands,        \* values ogs_random() may produce
  Zero,         \* the all-zero RAND of a never-authenticated subscriber
  RandFnBytes,  \* the first 16 bytes of the code of libc's rand()
  Garbage,      \* the contents of a never-written stack buffer
  NoVector,     \* "no E-UTRAN-Vector in the answer"
  NoWorker,     \* "nobody holds the lock"
  NoResync,     \* "no Re-synchronization-Info in the request"
  VisitedPlmn,  \* the Visited-PLMN-Id of the requests
  UserNameBytes,\* the first 3 bytes of the User-Name AVP (IMSI digits)
  SqnWidth,     \* bits of SQN (48 in the code: HSS_MAX_SQN)
  RefillCount,  \* vectors pushed per hss_db_write_additional_vectors (9)
  ResyncInfo,   \* ResyncInfo[i]: the [sqnMs, macOk] a request for i may carry
  StoreFaults,  \* TRUE iff a backend round-trip may fail
  MaxRequests   \* bound: number of AIRs the model receives

Provisioned == DOMAIN InitDb
SqnMod == 2 ^ SqnWidth

ASSUME Provisioned \subseteq Imsis
ASSUME RefillCount \in Nat \ {0}
ASSUME SqnWidth \in Nat \ {0} /\ MaxRequests \in Nat
ASSUME \A i \in Imsis : \A r \in ResyncInfo[i] : r.sqnMs \in 0 .. SqnMod - 1

\* Diameter result codes (Result-Code / Experimental-Result-Code)
DIAMETER_SUCCESS == 2001
OGS_DIAM_S6A_ERROR_USER_UNKNOWN == 5001
OGS_DIAM_S6A_AUTHENTICATION_DATA_UNAVAILABLE == 4181

VARIABLES
  db,        \* the subscribers collection: IMSI -> document
  lock,      \* lock[h]: the thread holding db_lock of HSS process h
  pc,        \* pc[w]: where thread w is in hss_ogs_diam_s6a_air_cb
  req,       \* req[w]: the IMSI and Re-synchronization-Info of w's request
  auth,      \* auth[w]: w's hss_db_auth_info_t (rand, sqn, remote)
  block,     \* block[w]: w's hss_blockchain_auth_vector_t (entry, use_db)
  result,    \* result[w]: w's result_code
  failed,    \* failed[w]: some store call of w's request failed (history)
  answers,   \* the answers sent, in order (history)
  served,    \* number of AIRs received so far
  usedRands, \* RAND values that have appeared anywhere so far
  down       \* the HSS processes that have crashed

vars == <<db, lock, pc, req, auth, block, result, failed, answers, served,
          usedRands, down>>

-----------------------------------------------------------------------------
(* Values *)

\* ogs_uint64_to_buffer(x, HSS_SQN_LEN, ...) keeps the low 48 bits; the
\* $bit/and with HSS_MAX_SQN does the same to the stored field.
Mask(x) == x % SqnMod

\* The vector MILENAGE and hss_auc_kasme derive from (rand, sqn) for the
\* serving-network id snid: its identity.
Vector(rand, sqn, snid) == [rand |-> rand, sqn |-> Mask(sqn), snid |-> snid]

\* A fresh value of ogs_random(): one that has not appeared before (a
\* 128-bit CSPRNG output).  Unused values are interchangeable, so the
\* choice among them is fixed.  Rands is sized (MCHssAir) so that one is
\* always left.
NewRand == CHOOSE r \in Rands : r \notin usedRands

LockFree(w) == lock[Instance[w]] = NoWorker

\* Thread w's HSS process is running: a crashed process takes every one
\* of its threads, and the request each was serving, with it.
Alive(w) == Instance[w] \notin down

RemoteImsis == {i \in Provisioned : InitDb[i].remote}

InitPool == UNION {ToSet(InitDb[i].avs) : i \in Provisioned}

InitRands ==
  ({InitDb[i].rand : i \in Provisioned}
    \cup {e.rand : e \in InitPool} \cup {e.av.rand : e \in InitPool})
  \ {Zero}

-----------------------------------------------------------------------------
Init ==
  /\ db = InitDb
  /\ lock = [h \in {Instance[w] : w \in Workers} |-> NoWorker]
  /\ pc = [w \in Workers |-> "idle"]
  /\ req = [w \in Workers |-> [imsi |-> CHOOSE i \in Imsis : TRUE,
                               resync |-> NoResync]]
  /\ auth = [w \in Workers |-> [rand |-> Zero, sqn |-> 0, remote |-> FALSE]]
  /\ block = [w \in Workers |-> [entry |-> Garbage, useDb |-> FALSE]]
  /\ result = [w \in Workers |-> DIAMETER_SUCCESS]
  /\ failed = [w \in Workers |-> FALSE]
  /\ answers = <<>>
  /\ served = 0
  /\ usedRands = InitRands
  /\ down = {}

\* A store call fails: result_code = AUTHENTICATION_DATA_UNAVAILABLE,
\* goto out.
FailOut(w) ==
  /\ result' = [result EXCEPT ![w] = OGS_DIAM_S6A_AUTHENTICATION_DATA_UNAVAILABLE]
  /\ failed' = [failed EXCEPT ![w] = TRUE]
  /\ pc' = [pc EXCEPT ![w] = "out"]

\* The vectors the $push loop of hss_db_write_additional_vectors builds:
\* SQN base+32*k (k = 1..RefillCount), derived from auth_info->rand.  The
\* document gets the unmasked temp_sqn and, as "rand", the hex of the
\* 16 bytes at `rand`, which in that function is libc's rand().  KASME
\* is derived with the avp_hdr the handler passes, that of User-Name.
Refilled(w) ==
  [k \in 1 .. RefillCount |->
     [rand |-> RandFnBytes,
      sqn  |-> auth[w].sqn + 32 * k,
      av   |-> Vector(auth[w].rand, auth[w].sqn + 32 * k, UserNameBytes)]]

\* SQN after a successful re-synchronisation: 33.102 C.3.4, IND + 1.
ResyncSqn(r) == Mask(r.sqnMs + 32 + 1)

-----------------------------------------------------------------------------
(* The handler *)

\* freeDiameter hands an AIR to a thread; the answer header is created and
\* User-Name copied into imsi_bcd.
AirRequest(w) ==
  /\ pc[w] = "idle"
  /\ served < MaxRequests
  /\ \E i \in Imsis : \E r \in {NoResync} \cup ResyncInfo[i] :
        req' = [req EXCEPT ![w] = [imsi |-> i, resync |-> r]]
  /\ pc' = [pc EXCEPT ![w] = "auth_info"]
  /\ failed' = [failed EXCEPT ![w] = FALSE]
  /\ served' = served + 1
  /\ UNCHANGED <<db, lock, auth, block, result, answers, usedRands, down>>

\* hss_db_auth_info: find the document; a miss (or a cursor error, which
\* takes the same path) answers USER_UNKNOWN.  Then, in the handler, an
\* all-zero RAND is replaced by a fresh one (not yet stored) and the
\* handler branches on use_remote_vectors.
hss_db_auth_info(w) ==
  LET i == req[w].imsi IN
  /\ pc[w] = "auth_info"
  /\ LockFree(w)
  /\ \/ /\ i \notin Provisioned
        /\ result' = [result EXCEPT ![w] = OGS_DIAM_S6A_ERROR_USER_UNKNOWN]
        /\ pc' = [pc EXCEPT ![w] = "out"]
        /\ UNCHANGED <<auth, failed, usedRands>>
     \/ /\ i \in Provisioned /\ StoreFaults
        /\ result' = [result EXCEPT ![w] = OGS_DIAM_S6A_ERROR_USER_UNKNOWN]
        /\ failed' = [failed EXCEPT ![w] = TRUE]
        /\ pc' = [pc EXCEPT ![w] = "out"]
        /\ UNCHANGED <<auth, usedRands>>
     \/ /\ i \in Provisioned
        /\ LET d == db[i]
               fresh == d.rand = Zero
           IN /\ auth' = [auth EXCEPT ![w] =
                            [rand   |-> IF fresh THEN NewRand ELSE d.rand,
                             sqn    |-> d.sqn,
                             remote |-> d.remote]]
              /\ usedRands' = IF fresh THEN usedRands \cup {NewRand}
                                       ELSE usedRands
              /\ pc' = [pc EXCEPT ![w] = IF d.remote THEN "fetch_find"
                                                     ELSE "refill"]
        /\ UNCHANGED <<result, failed>>
  /\ UNCHANGED <<db, lock, req, block, answers, served, down>>

\* hss_db_fetch_sawtooth_authentication_vectors, first round-trip: lock,
\* find, copy the head of security.authvectors.  bson_iter_array gives
\* the array's byte length (at least 5), so the av_count <= 0 branch is
\* dead: an emptied array goes on to bson_iter_find("0"), which fails and
\* leaves the iterator's raw pointer NULL, and bson_iter_recurse reads
\* through it: the HSS process dies with its db_lock held, which no one
\* is left to observe.  On a cursor error the function unlocks and
\* returns without writing the struct; the handler ignores the error.
hss_db_fetch_find(w) ==
  LET i == req[w].imsi IN
  /\ pc[w] = "fetch_find"
  /\ LockFree(w)
  /\ \/ /\ db[i].avs # <<>>
        /\ block' = [block EXCEPT ![w] = [entry |-> Head(db[i].avs),
                                          useDb |-> FALSE]]
        /\ lock' = [lock EXCEPT ![Instance[w]] = w]
        /\ pc' = [pc EXCEPT ![w] = "fetch_pop"]
        /\ UNCHANGED <<failed, down>>
     \/ /\ db[i].avs = <<>>
        /\ down' = down \cup {Instance[w]}
        /\ UNCHANGED <<block, lock, pc, failed>>
     \/ /\ StoreFaults
        /\ block' = [block EXCEPT ![w].entry = Garbage]
        /\ failed' = [failed EXCEPT ![w] = TRUE]
        /\ pc' = [pc EXCEPT ![w] = "resync"]
        /\ UNCHANGED <<lock, down>>
  /\ UNCHANGED <<db, req, auth, result, answers, served, usedRands>>

\* Seeded fault: $pop 1 (the last element) instead of $pop -1.
hss_db_fetch_pop_last(w) ==
  LET i == req[w].imsi IN
  /\ pc[w] = "fetch_pop"
  /\ lock' = [lock EXCEPT ![Instance[w]] = NoWorker]
  /\ pc' = [pc EXCEPT ![w] = "resync"]
  /\ db' = [db EXCEPT ![i].avs = IF @ = <<>> THEN @ ELSE Front(@)]
  /\ UNCHANGED <<req, auth, block, result, failed, answers, served, usedRands, down>>

\* Seeded fault: the $pop names a field that does not exist.
hss_db_fetch_pop_noop(w) ==
  /\ pc[w] = "fetch_pop"
  /\ lock' = [lock EXCEPT ![Instance[w]] = NoWorker]
  /\ pc' = [pc EXCEPT ![w] = "resync"]
  /\ UNCHANGED <<db, req, auth, block, result, failed, answers, served,
                 usedRands, down>>

\* Seeded fault: the unlock after the $pop is missing.
hss_db_fetch_pop_keeps_lock(w) ==
  LET i == req[w].imsi IN
  /\ pc[w] = "fetch_pop"
  /\ pc' = [pc EXCEPT ![w] = "resync"]
  /\ db' = [db EXCEPT ![i].avs = IF @ = <<>> THEN @ ELSE Tail(@)]
  /\ UNCHANGED <<lock, req, auth, block, result, failed, answers, served,
                 usedRands, down>>

\* Second round-trip: $pop -1 on security.authvectors (a no-op on an empty
\* array), then unlock.  A failed update is reported and ignored.
hss_db_fetch_pop(w) ==
  LET i == req[w].imsi IN
  /\ pc[w] = "fetch_pop"
  /\ lock' = [lock EXCEPT ![Instance[w]] = NoWorker]
  /\ pc' = [pc EXCEPT ![w] = "resync"]
  /\ \/ /\ db' = [db EXCEPT ![i].avs = IF @ = <<>> THEN @ ELSE Tail(@)]
        /\ UNCHANGED failed
     \/ /\ StoreFaults
        /\ failed' = [failed EXCEPT ![w] = TRUE]
        /\ UNCHANGED db
  /\ UNCHANGED <<req, auth, block, result, answers, served, usedRands, down>>

\* hss_db_write_additional_vectors: find, then $push RefillCount vectors
\* built from the auth_info read by hss_db_auth_info; the first one is
\* kept in the struct with use_db = 1.  Each $push may fail on its own and
\* the loop goes on; the handler ignores the error.  When the find fails
\* the struct is never written and use_db is whatever the stack held.
hss_db_write_additional_vectors(w) ==
  LET i == req[w].imsi IN
  /\ pc[w] = "refill"
  /\ LockFree(w)
  /\ pc' = [pc EXCEPT ![w] = "resync"]
  /\ \/ /\ \E pushed \in IF StoreFaults THEN AllSubSeqs(Refilled(w))
                                       ELSE {Refilled(w)} :
             /\ db' = [db EXCEPT ![i].avs = @ \o pushed]
             /\ failed' = [failed EXCEPT ![w] = pushed # Refilled(w)]
        /\ block' = [block EXCEPT ![w] =
                       [entry |-> [Refilled(w)[1] EXCEPT !.rand = auth[w].rand],
                        useDb |-> TRUE]]
     \/ /\ StoreFaults
        /\ \E u \in BOOLEAN : block' = [block EXCEPT ![w] =
                                          [entry |-> Garbage, useDb |-> u]]
        /\ failed' = [failed EXCEPT ![w] = TRUE]
        /\ UNCHANGED db
  /\ UNCHANGED <<lock, req, auth, result, answers, served, usedRands, down>>

\* Seeded fault: a successful resynchronisation keeps the old RAND.
AirResync_keeps_rand(w) ==
  LET r == req[w].resync
      next == IF auth[w].remote THEN "send" ELSE "update"
  IN
  /\ pc[w] = "resync"
  /\ \/ /\ r = NoResync
        /\ pc' = [pc EXCEPT ![w] = next]
        /\ UNCHANGED <<auth, result>>
     \/ /\ r # NoResync
        /\ r.macOk
        /\ auth' = [auth EXCEPT ![w].sqn = ResyncSqn(r)]
        /\ pc' = [pc EXCEPT ![w] = next]
        /\ UNCHANGED result
     \/ /\ r # NoResync
        /\ ~r.macOk
        /\ result' = [result EXCEPT ![w] = OGS_DIAM_S6A_AUTHENTICATION_DATA_UNAVAILABLE]
        /\ pc' = [pc EXCEPT ![w] = "out"]
        /\ UNCHANGED auth
  /\ UNCHANGED <<db, lock, req, block, failed, answers, served, usedRands, down>>

\* The Re-synchronization-Info check of the handler (hss_auc_sqn gives
\* SQN_MS and MAC_S): on a MAC_S match a fresh RAND and SQN_MS + 33; on a
\* mismatch AUTHENTICATION_DATA_UNAVAILABLE.  Local subscribers go on to
\* the store updates, remote ones straight to the answer.
AirResync(w) ==
  LET r == req[w].resync
      next == IF auth[w].remote THEN "send" ELSE "update"
  IN
  /\ pc[w] = "resync"
  /\ \/ /\ r = NoResync
        /\ pc' = [pc EXCEPT ![w] = next]
        /\ UNCHANGED <<auth, result, usedRands>>
     \/ /\ r # NoResync
        /\ r.macOk
        /\ auth' = [auth EXCEPT ![w].rand = NewRand, ![w].sqn = ResyncSqn(r)]
        /\ usedRands' = usedRands \cup {NewRand}
        /\ pc' = [pc EXCEPT ![w] = next]
        /\ UNCHANGED result
     \/ /\ r # NoResync
        /\ ~r.macOk
        /\ result' = [result EXCEPT ![w] = OGS_DIAM_S6A_AUTHENTICATION_DATA_UNAVAILABLE]
        /\ pc' = [pc EXCEPT ![w] = "out"]
        /\ UNCHANGED <<auth, usedRands>>
  /\ UNCHANGED <<db, lock, req, block, failed, answers, served, down>>

\* hss_db_update_rand_and_sqn: $set security.rand and security.sqn to the
\* handler's auth_info values.
hss_db_update_rand_and_sqn(w) ==
  LET i == req[w].imsi IN
  /\ pc[w] = "update"
  /\ LockFree(w)
  /\ \/ /\ db' = [db EXCEPT ![i].rand = auth[w].rand, ![i].sqn = auth[w].sqn]
        /\ pc' = [pc EXCEPT ![w] = "inc"]
        /\ UNCHANGED <<result, failed>>
     \/ /\ StoreFaults
        /\ FailOut(w)
        /\ UNCHANGED db
  /\ UNCHANGED <<lock, req, auth, block, answers, served, usedRands, down>>

\* Seeded fault: the $inc is missing.
hss_db_increment_sqn_inc_skipped(w) ==
  /\ pc[w] = "inc"
  /\ LockFree(w)
  /\ lock' = [lock EXCEPT ![Instance[w]] = w]
  /\ pc' = [pc EXCEPT ![w] = "bit"]
  /\ UNCHANGED <<db, req, auth, block, result, failed, answers, served,
                 usedRands, down>>

\* Seeded fault: the $inc runs outside db_lock.
hss_db_increment_sqn_inc_unlocked(w) ==
  LET i == req[w].imsi IN
  /\ pc[w] = "inc"
  /\ db' = [db EXCEPT ![i].sqn = @ + 32]
  /\ pc' = [pc EXCEPT ![w] = "bit"]
  /\ UNCHANGED <<lock, req, auth, block, result, failed, answers, served,
                 usedRands, down>>

\* hss_db_increment_sqn, first round-trip: lock, $inc security.sqn by 32.
hss_db_increment_sqn_inc(w) ==
  LET i == req[w].imsi IN
  /\ pc[w] = "inc"
  /\ LockFree(w)
  /\ \/ /\ db' = [db EXCEPT ![i].sqn = @ + 32]
        /\ lock' = [lock EXCEPT ![Instance[w]] = w]
        /\ pc' = [pc EXCEPT ![w] = "bit"]
        /\ UNCHANGED <<result, failed>>
     \/ /\ StoreFaults
        /\ FailOut(w)
        /\ UNCHANGED <<db, lock>>
  /\ UNCHANGED <<req, auth, block, answers, served, usedRands, down>>

\* Seeded fault: the $bit is missing.
hss_db_increment_sqn_bit_unmasked(w) ==
  /\ pc[w] = "bit"
  /\ lock' = [lock EXCEPT ![Instance[w]] = NoWorker]
  /\ pc' = [pc EXCEPT ![w] = "send"]
  /\ UNCHANGED <<db, req, auth, block, result, failed, answers, served,
                 usedRands, down>>

\* Seeded fault: the error path of the $bit skips the unlock.
hss_db_increment_sqn_bit_leaks(w) ==
  LET i == req[w].imsi IN
  /\ pc[w] = "bit"
  /\ \/ /\ db' = [db EXCEPT ![i].sqn = Mask(@)]
        /\ lock' = [lock EXCEPT ![Instance[w]] = NoWorker]
        /\ pc' = [pc EXCEPT ![w] = "send"]
        /\ UNCHANGED <<result, failed>>
     \/ /\ StoreFaults
        /\ FailOut(w)
        /\ UNCHANGED <<db, lock>>
  /\ UNCHANGED <<req, auth, block, answers, served, usedRands, down>>

\* Second round-trip: $bit and with HSS_MAX_SQN, then unlock.
hss_db_increment_sqn_bit(w) ==
  LET i == req[w].imsi IN
  /\ pc[w] = "bit"
  /\ lock' = [lock EXCEPT ![Instance[w]] = NoWorker]
  /\ \/ /\ db' = [db EXCEPT ![i].sqn = Mask(@)]
        /\ pc' = [pc EXCEPT ![w] = "send"]
        /\ UNCHANGED <<result, failed>>
     \/ /\ StoreFaults
        /\ FailOut(w)
        /\ UNCHANGED db
  /\ UNCHANGED <<req, auth, block, answers, served, usedRands, down>>

\* The E-UTRAN-Vector a local subscriber's answer carries: the pool's
\* first vector when use_db = 1, else MILENAGE run on auth_info.
LocalVector(w) ==
  IF block[w].useDb
  THEN IF block[w].entry = Garbage THEN Garbage ELSE block[w].entry.av
  ELSE Vector(auth[w].rand, auth[w].sqn, VisitedPlmn)

\* The success answer: RAND is auth_info.rand for a local subscriber and
\* the struct's rand for a remote one; XRES, AUTN and KASME come from
\* LocalVector or the struct.
AirAnswer(w) ==
  LET e == block[w].entry
      remote == auth[w].remote
  IN
  /\ pc[w] = "send"
  /\ answers' = Append(answers,
        [imsi   |-> req[w].imsi,
         resync |-> req[w].resync,
         code   |-> DIAMETER_SUCCESS,
         rand   |-> IF ~remote THEN auth[w].rand
                    ELSE IF e = Garbage THEN Garbage ELSE e.rand,
         av     |-> IF ~remote THEN LocalVector(w)
                    ELSE IF e = Garbage THEN Garbage ELSE e.av,
         failed |-> failed[w]])
  /\ pc' = [pc EXCEPT ![w] = "idle"]
  /\ UNCHANGED <<db, lock, req, auth, block, result, failed, served, usedRands, down>>

\* Seeded fault: the error path returns without sending the answer.
AirOut_silent(w) ==
  /\ pc[w] = "out"
  /\ pc' = [pc EXCEPT ![w] = "idle"]
  /\ UNCHANGED <<db, lock, req, auth, block, result, failed, answers, served,
                 usedRands, down>>

\* out: an answer with the Experimental-Result and no vector.
AirOut(w) ==
  /\ pc[w] = "out"
  /\ answers' = Append(answers,
        [imsi |-> req[w].imsi, resync |-> req[w].resync,
         code |-> result[w], rand |-> NoVector,
         av |-> NoVector, failed |-> failed[w]])
  /\ pc' = [pc EXCEPT ![w] = "idle"]
  /\ UNCHANGED <<db, lock, req, auth, block, result, failed, served, usedRands,
                 down>>

Handler(w) ==
  \/ hss_db_auth_info(w)
  \/ hss_db_fetch_find(w)
  \/ hss_db_fetch_pop(w)
  \/ hss_db_write_additional_vectors(w)
  \/ AirResync(w)
  \/ hss_db_update_rand_and_sqn(w)
  \/ hss_db_increment_sqn_inc(w)
  \/ hss_db_increment_sqn_bit(w)
  \/ AirAnswer(w)
  \/ AirOut(w)

\* Every thread is idle with the model's request budget spent, or gone
\* with its crashed process.
Done ==
  /\ \A w \in Workers : ~Alive(w) \/ (pc[w] = "idle" /\ served = MaxRequests)
  /\ UNCHANGED vars

Next ==
  \/ \E w \in Workers : Alive(w) /\ (AirRequest(w) \/ Handler(w))
  \/ Done

\* The OS schedules every runnable dispatch thread of a live process;
\* requests arrive when peers send them, so AirRequest is not fair.
Fairness == \A w \in Workers : WF_vars(Alive(w) /\ Handler(w))

Spec == Init /\ [][Next]_vars /\ Fairness


-----------------------------------------------------------------------------
(* Properties *)

Vectors == [rand : Rands, sqn : 0 .. SqnMod - 1,
            snid : {VisitedPlmn, UserNameBytes}]
Entries == [rand : Rands \cup {RandFnBytes},
            sqn : 0 .. SqnMod + 32 * (RefillCount + MaxRequests),
            av : Vectors]
Stages == {"idle", "auth_info", "fetch_find", "fetch_pop", "refill",
           "resync", "update", "inc", "bit", "send", "out"}

TypeOK ==
  /\ \A i \in Provisioned :
        /\ db[i].sqn \in 0 .. SqnMod + 32 * MaxRequests
        /\ db[i].rand \in Rands \cup {Zero}
        /\ db[i].avs \in Seq(Entries)
  /\ \A h \in DOMAIN lock : lock[h] \in Workers \cup {NoWorker}
  /\ pc \in [Workers -> Stages]
  /\ \A w \in Workers :
        /\ auth[w].rand \in Rands \cup {Zero}
        /\ block[w].entry \in Entries \cup {Garbage}
        /\ block[w].useDb \in BOOLEAN
        /\ (lock[Instance[w]] = w) <=> pc[w] \in {"fetch_pop", "bit"}
  /\ served \in 0 .. MaxRequests
  /\ usedRands \subseteq Rands
  /\ down \subseteq {Instance[w] : w \in Workers}

Success(a) == a.code = DIAMETER_SUCCESS

\* A vector that really came out of MILENAGE, not an unwritten buffer.
Derived(v) == v # Garbage

\* Spec 8.5: two AIRs never hand out the same (RAND, SQN) for one
\* subscriber.  Breaks if the $set/$inc of one AIR is lost to another
\* AIR that read the same document (hss_db_auth_info and
\* hss_db_update_rand_and_sqn are separate critical sections), or if the
\* resync path or the $inc fails to move the stored SQN on.
NoVectorReuse ==
  \A j, k \in 1 .. Len(answers) :
     /\ j < k
     /\ Success(answers[j]) /\ Success(answers[k])
     /\ answers[j].imsi = answers[k].imsi
     /\ Derived(answers[j].av)
     => answers[j].av # answers[k].av

\* The threads holding pool entry e of subscriber i: those whose answer
\* carried it and those past the $pop that will send it.
Holders(i, e) ==
  Cardinality({j \in 1 .. Len(answers) :
                  answers[j].imsi = i /\ Success(answers[j])
                  /\ answers[j].av = e.av})
  + Cardinality({w \in Workers : /\ pc[w] \in {"resync", "send"}
                                 /\ req[w].imsi = i
                                 /\ block[w].entry = e})

\* A remote subscriber's pre-computed vector is handed out exactly once:
\* never while it is still queued, and once after it has left the queue
\* (the find of the head and its $pop in
\* hss_db_fetch_sawtooth_authentication_vectors must act as one dequeue).
PoolVectorsDeliveredOnce ==
  \A i \in RemoteImsis : \A e \in ToSet(InitDb[i].avs) :
     Holders(i, e) = IF e \in ToSet(db[i].avs) THEN 0 ELSE 1

\* Spec 8.3: a local AIR that gets past hss_db_increment_sqn leaves the
\* stored SQN exactly 32 past the SQN the handler worked from.
SqnAdvance ==
  [][\A w \in Workers :
       (pc[w] = "bit" /\ pc'[w] = "send")
         => db'[req[w].imsi].sqn = Mask(auth[w].sqn + 32)]_vars

\* Every AIR a live HSS process took is answered unless that process
\* crashes first: the handler releases db_lock on every path, so no
\* thread of a running process waits on it forever.
AnswerEventually ==
  \A w \in Workers : pc[w] # "idle" ~> (pc[w] = "idle" \/ ~Alive(w))

\* Spec 4.4 and 7: an AIR for a remote subscriber whose pool is empty is
\* answered (with AUTHENTICATION_DATA_UNAVAILABLE); the pool being empty
\* when hss_db_fetch_sawtooth_authentication_vectors reads it must not
\* keep the request from its answer.
EmptyPoolAnswered ==
  \A w \in Workers :
     (pc[w] = "fetch_find" /\ db[req[w].imsi].avs = <<>>) ~> pc[w] = "idle"

\* Spec 5: if any store step of an AIR fails, no success answer is sent.
NoSuccessAfterFailure ==
  \A j \in 1 .. Len(answers) : answers[j].failed => ~Success(answers[j])

\* HssAir implements the atomic service of AbstractAir: a thread is busy
\* with its request's IMSI from AirRequest until the step that sends the
\* answer (AirAnswer or AirOut); every store step in between is a
\* stuttering step of the abstract service.  NoVector stands for "no
\* request".
Abstract == INSTANCE AbstractAir WITH
  NoImsi  <- NoVector,
  busy    <- [w \in Workers |-> IF pc[w] = "idle" THEN NoVector ELSE req[w].imsi],
  answers <- [j \in 1 .. Len(answers) |->
                [imsi |-> answers[j].imsi, ok |-> Success(answers[j]),
                 av |-> answers[j].av]]

\* Each request gets exactly one answer, sent at one step, for its own
\* IMSI, and no success answer repeats a vector an earlier one carried
\* for the subscriber: the handler's many store steps add up to the
\* atomic AIR of AbstractAir.
AirRefinement == Abstract!Spec

=============================================================================
