------------------------------- MODULE MmeGtp -------------------------------
(***************************************************************************)
(* The MME's S11 (GTPv2-C) path for one UE (src/src/mme/mme-gtp-path.c).  *)
(*                                                                         *)
(* Every function here runs on the MME's single event thread: the socket   *)
(* callback, the transaction timeouts and the senders called by the state  *)
(* machines.  Each is one action, except mme_gtp_send_delete_all_sessions, *)
(* whose loop is a sequence of steps during which nothing else runs        *)
(* (inLoop).                                                               *)
(*                                                                         *)
(* A local transaction is named by its message type and its timeout data:  *)
(* the session for a Delete-Session-Request, the UE otherwise.  xacts      *)
(* counts the open transactions of each name, saturating at Many ("two or  *)
(* more").  The S11 handler and the ESM/EMM state machines that call these *)
(* functions are not in this file; they are the environment: a Dispatch of *)
(* a queued message answers a transaction or opens an SGW-initiated one,   *)
(* and teardown requests (detach, timeouts) call delete-all-sessions.      *)
(***************************************************************************)
EXTENDS Integers, Sequences, SequencesExt, FiniteSets

CONSTANTS
  Sess,          \* the UE's sessions
  InitSess,      \* their order in mme_ue->sess_list
  S1u,           \* sessions whose default bearer has an SGW S1-U path
  Disconnecting, \* sessions whose default bearer is in pdn_will_disconnect
  Sgws,          \* addresses of configured SGWs
  Strangers,     \* other addresses a datagram may come from
  EnbUe,         \* TRUE iff the UE has an S1 context (mme_ue->enb_ue)
  QueueSize,     \* capacity of mme_self()->queue
  MaxRecv,       \* bound: datagrams received
  MaxTeardown,   \* bound: teardown requests from the state machines
  MaxSend,       \* bound: requests the state machines ask these senders for
  BuildFaults    \* TRUE iff a message builder or xact create may fail

Many == 2

\* The requests mme_gtp_send_* open with the UE as timeout data.
UeTypes == {"create_session", "modify_bearer", "release_access_bearers",
            "create_idft", "delete_idft"}
\* The SGW-initiated requests the MME answers on the SGW's transaction.
BearerTypes == {"create_bearer", "update_bearer", "delete_bearer"}

UeKey(t) == [type |-> t, data |-> "ue"]
DsrKey(s) == [type |-> "delete_session", data |-> s]
Keys == {UeKey(t) : t \in UeTypes} \cup {DsrKey(s) : s \in Sess}

VARIABLES
  sess,        \* mme_ue->sess_list
  willDeleted, \* mme_ue->session_context_will_deleted
  inLoop,      \* inside the loop of mme_gtp_send_delete_all_sessions
  xacts,       \* open local transactions, by name
  remote,      \* SGW-initiated transactions waiting for our response
  queue,       \* mme_self()->queue: S11 events not yet dispatched
  recvd,       \* pkbufs allocated by the receive callback
  freed,       \* of those, freed by it
  dispatched,  \* of those, handed to the state machine
  teardowns,   \* teardown requests not yet acted upon
  requested,   \* teardown requests so far
  sends,       \* sender calls from the state machines so far
  releases,    \* UE Context Release Commands sent (saturating)
  crashed,     \* the MME process died
  blocked      \* the event thread waits in ogs_queue_push for good

vars == <<sess, willDeleted, inLoop, xacts, remote, queue, recvd, freed,
          dispatched, teardowns, requested, sends, releases, crashed,
          blocked>>

Init ==
  /\ sess = InitSess
  /\ willDeleted = FALSE /\ inLoop = FALSE
  \* the ESM path already sent a DSR for a disconnecting session
  /\ xacts = [k \in Keys |-> IF k.type = "delete_session" /\ k.data \in Disconnecting
                              THEN 1 ELSE 0]
  /\ remote = {}
  /\ queue = <<>>
  /\ recvd = 0 /\ freed = 0 /\ dispatched = 0
  /\ teardowns = 0 /\ requested = 0 /\ sends = 0
  /\ releases = 0
  /\ crashed = FALSE /\ blocked = FALSE

\* The event thread is free: not inside the delete-all loop, not blocked,
\* still alive.
Idle == ~inLoop /\ ~crashed /\ ~blocked

Open(k) == xacts' = [xacts EXCEPT ![k] = IF @ < Many THEN @ + 1 ELSE Many]
Close(k) == xacts' = [xacts EXCEPT ![k] = @ - 1]

\* Build the message, create the local transaction, commit it; either of
\* the first two may fail (ogs_expect_or_return), and nothing is sent.
SendLocal(k) ==
  \/ Open(k)
  \/ BuildFaults /\ UNCHANGED xacts

-----------------------------------------------------------------------------
(* The receive callback *)

\* _gtpv2_c_recv_cb: a failed recvfrom frees the buffer; a datagram from
\* an address that is no SGW reaches ogs_pkbuf_free(e->pkbuf) with e still
\* NULL, and the process dies on the dereference; otherwise the event is
\* queued.  ogs_queue_push waits while the queue is full, and the thread
\* that would drain it is this one: it blocks for good.  (The push fails,
\* and the event is freed, only on a terminated queue, at shutdown.)
gtpv2_c_recv_cb ==
  /\ Idle
  /\ recvd < MaxRecv
  /\ recvd' = recvd + 1
  /\ \/ /\ freed' = freed + 1                               \* size <= 0
        /\ UNCHANGED <<queue, crashed, blocked>>
     \/ \E from \in Sgws \cup Strangers :
          \/ /\ from \notin Sgws                   \* mme_sgw_find_by_addr
             /\ crashed' = TRUE
             /\ UNCHANGED <<queue, freed, blocked>>
          \/ /\ from \in Sgws /\ Len(queue) < QueueSize
             /\ queue' = Append(queue, "s11")
             /\ UNCHANGED <<freed, crashed, blocked>>
          \/ /\ from \in Sgws /\ Len(queue) = QueueSize
             /\ blocked' = TRUE
             /\ UNCHANGED <<queue, freed, crashed>>
  /\ UNCHANGED <<sess, willDeleted, inLoop, xacts, remote, dispatched,
                 teardowns, requested, sends, releases>>

-----------------------------------------------------------------------------
(* Transaction timeout *)

\* timeout: for a Delete-Session-Request, an S1 UE Context Release Command
\* when the UE has an S1 context; for any other request, the UE is torn
\* down (mme_send_delete_session_or_mme_ue_context_release).
timeout ==
  /\ Idle
  /\ \E k \in Keys :
       /\ xacts[k] > 0
       /\ Close(k)
       /\ IF k.type = "delete_session"
            THEN /\ releases' = IF EnbUe THEN Min({releases + 1, Many}) ELSE releases
                 /\ UNCHANGED teardowns
            ELSE /\ teardowns' = teardowns + 1
                 /\ UNCHANGED releases
  /\ UNCHANGED <<sess, willDeleted, inLoop, remote, queue, recvd, freed,
                 dispatched, requested, sends, crashed, blocked>>

-----------------------------------------------------------------------------
(* Senders *)

SendUe(t) ==
  /\ Idle
  /\ sends < MaxSend /\ sends' = sends + 1
  /\ SendLocal(UeKey(t))
  /\ UNCHANGED <<sess, willDeleted, inLoop, remote, queue, recvd, freed,
                 dispatched, teardowns, requested, releases, crashed, blocked>>

mme_gtp_send_create_session_request == SendUe("create_session")
mme_gtp_send_modify_bearer_request == SendUe("modify_bearer")
mme_gtp_send_release_access_bearers_request ==
  SendUe("release_access_bearers")
mme_gtp_send_create_indirect_data_forwarding_tunnel_request ==
  SendUe("create_idft")
mme_gtp_send_delete_indirect_data_forwarding_tunnel_request ==
  SendUe("delete_idft")

\* mme_gtp_send_delete_session_request called by the ESM state machine.
mme_gtp_send_delete_session_request ==
  /\ Idle
  /\ sends < MaxSend /\ sends' = sends + 1
  /\ \E s \in Range(sess) : SendLocal(DsrKey(s))
  /\ UNCHANGED <<sess, willDeleted, inLoop, remote, queue, recvd, freed,
                 dispatched, teardowns, requested, releases, crashed, blocked>>

\* The response to an SGW-initiated bearer request: update the SGW's
\* transaction with our message and commit it; a failed build or update
\* returns and leaves the SGW's request unanswered.
SendBearerResponse(t) ==
  /\ Idle
  /\ sends < MaxSend /\ sends' = sends + 1
  /\ t \in remote
  /\ \/ remote' = remote \ {t}
     \/ BuildFaults /\ UNCHANGED remote
  /\ UNCHANGED <<sess, willDeleted, inLoop, xacts, queue, recvd, freed,
                 dispatched, teardowns, requested, releases, crashed, blocked>>

mme_gtp_send_create_bearer_response == SendBearerResponse("create_bearer")
mme_gtp_send_update_bearer_response == SendBearerResponse("update_bearer")
mme_gtp_send_delete_bearer_response == SendBearerResponse("delete_bearer")

-----------------------------------------------------------------------------
(* Delete all sessions *)

\* mme_gtp_send_delete_all_sessions: return at once if the flag is set,
\* otherwise set it and enter the loop.
mme_gtp_send_delete_all_sessions ==
  /\ Idle
  /\ teardowns > 0
  /\ teardowns' = teardowns - 1
  /\ \/ willDeleted /\ UNCHANGED <<willDeleted, inLoop>>
     \/ /\ ~willDeleted
        /\ willDeleted' = TRUE
        /\ inLoop' = TRUE
  /\ UNCHANGED <<sess, xacts, remote, queue, recvd, freed, dispatched,
                 requested, sends, releases, crashed, blocked>>

\* One pass of the loop body on sess = mme_sess_first(mme_ue): a session
\* with an S1-U path gets a Delete-Session-Request unless its default
\* bearer is already disconnecting, and stays in the list; one without
\* is removed.
DeleteAllIteration ==
  /\ inLoop /\ ~crashed
  /\ sess # <<>>
  /\ LET s == Head(sess) IN
       \/ /\ s \in S1u /\ s \in Disconnecting
          /\ UNCHANGED <<sess, xacts>>
       \/ /\ s \in S1u /\ s \notin Disconnecting
          /\ SendLocal(DsrKey(s))
          /\ UNCHANGED sess
       \/ /\ s \notin S1u
          /\ sess' = Tail(sess)
          /\ UNCHANGED xacts
  /\ UNCHANGED <<willDeleted, inLoop, remote, queue, recvd, freed, dispatched,
                 teardowns, requested, sends, releases, crashed, blocked>>

\* The loop condition: mme_sess_first returns NULL.
DeleteAllEnd ==
  /\ inLoop /\ ~crashed
  /\ sess = <<>>
  /\ inLoop' = FALSE
  /\ UNCHANGED <<sess, willDeleted, xacts, remote, queue, recvd, freed,
                 dispatched, teardowns, requested, sends, releases, crashed,
          blocked>>

-----------------------------------------------------------------------------
(* Environment: the S11 handler and the EMM/ESM state machines *)

\* The state machine takes the oldest S11 event: a response closes the
\* local transaction it answers (a Delete-Session-Response also removes
\* the session), an SGW bearer request opens a remote transaction, any
\* other message changes nothing here.
Dispatch ==
  /\ Idle
  /\ queue # <<>>
  /\ queue' = Tail(queue)
  /\ dispatched' = dispatched + 1
  /\ \/ \E k \in Keys :
          /\ xacts[k] > 0
          /\ Close(k)
          /\ sess' = IF k.type = "delete_session"
                       THEN SelectSeq(sess, LAMBDA x : x # k.data) ELSE sess
          /\ UNCHANGED remote
     \/ \E t \in BearerTypes \ remote :
          remote' = remote \cup {t} /\ UNCHANGED <<sess, xacts>>
     \/ UNCHANGED <<sess, xacts, remote>>
  /\ UNCHANGED <<willDeleted, inLoop, recvd, freed, teardowns, requested, sends,
                 releases, crashed, blocked>>

\* Detach, or a failure elsewhere, asks for the UE's sessions to go.
Teardown ==
  /\ Idle
  /\ requested < MaxTeardown
  /\ requested' = requested + 1
  /\ teardowns' = teardowns + 1
  /\ UNCHANGED <<sess, willDeleted, inLoop, xacts, remote, queue, recvd, sends,
                 freed, dispatched, releases, crashed, blocked>>

Next ==
  \/ gtpv2_c_recv_cb \/ timeout
  \/ mme_gtp_send_create_session_request
  \/ mme_gtp_send_modify_bearer_request
  \/ mme_gtp_send_release_access_bearers_request
  \/ mme_gtp_send_create_indirect_data_forwarding_tunnel_request
  \/ mme_gtp_send_delete_indirect_data_forwarding_tunnel_request
  \/ mme_gtp_send_delete_session_request
  \/ mme_gtp_send_create_bearer_response
  \/ mme_gtp_send_update_bearer_response
  \/ mme_gtp_send_delete_bearer_response
  \/ mme_gtp_send_delete_all_sessions \/ DeleteAllIteration \/ DeleteAllEnd
  \/ Dispatch \/ Teardown

\* The loop is straight-line code on the event thread: once entered, its
\* steps are taken.
Fairness == WF_vars(DeleteAllIteration \/ DeleteAllEnd)

Spec == Init /\ [][Next]_vars /\ Fairness

-----------------------------------------------------------------------------
(* Properties *)

\* A datagram from an address that is no configured SGW is logged
\* ("Unknown SGW"), its buffer freed, and the callback returns: the MME
\* goes on serving.
UnknownSgwDropped == ~crashed

\* A call of mme_gtp_send_delete_all_sessions returns: the loop ends.
DeleteAllTerminates ==
  inLoop ~> ~inLoop

=============================================================================
