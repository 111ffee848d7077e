------------------------------ MODULE ExecWire ------------------------------
(***************************************************************************)
(* Actions requested over the network (crates/ptr-execwire): requesters    *)
(* that time out, resend and retry, a host that serves one request at a    *)
(* time under the runtime's lock, and the receipts between them.           *)
(*                                                                         *)
(* The runtime behind the host is the contract of EffectOnce, which        *)
(* ExecutionAudit implements; its memory of an unresolved append is        *)
(* `uncertain', and a lost host comes back with the log's outcomes and an  *)
(* empty replay window.                                                    *)
(*                                                                         *)
(* Abstractions.                                                           *)
(*  - An intent is what a requester wants once: a peer, an action and      *)
(*    perhaps a key. Two intents may name the same key.                    *)
(*  - A connection carries one frame and at most one receipt. The receipt  *)
(*    checks of ExecutionClient::request (author, id, digest) are about a  *)
(*    dishonest host; this one is honest.                                  *)
(*  - Whether a response is retained and fits in a frame is a free choice. *)
(***************************************************************************)
EXTENDS EffectOnce, Sequences, FiniteSets

CONSTANTS
    Intent,           \* what requesters want done
    Peer,             \* authenticated requesters
    PeerOf,           \* the peer behind an intent
    KeyOf,            \* the at-most-once key of an intent, or NoKey
    Misaddressed,     \* intents whose requests name another endpoint's key
    Unreadable,       \* intents whose frames the host cannot decode
    MaxReplayWindow,  \* MAX_REPLAY_WINDOW
    MaxTrackedPeers,  \* MAX_TRACKED_PEERS
    MaxConns,         \* bound on connections
    MaxFailures       \* bound on failed appends and lost hosts

ASSUME WireAssumption ==
    /\ PeerOf \in [Intent -> Peer] /\ KeyOf \in [Intent -> Key \cup {NoKey}]
    /\ Misaddressed \subseteq Intent /\ Unreadable \subseteq Intent
    /\ {MaxReplayWindow, MaxTrackedPeers} \subseteq Nat \ {0}
    /\ {MaxConns, MaxFailures} \subseteq Nat

VARIABLES
    maker,      \* the connection an attempt was made for
    conns,      \* every request() call so far
    window,     \* ReplayWindow.peers, least recently used first
    admitted,   \* peers the host's admission policy knows
    uncertain,  \* the runtime does not know how its last append ended
    host,       \* what the holder of the runtime lock is doing
    failures

vars == <<onceVars, maker, conns, window, admitted, uncertain, host, failures>>

Refusals == {"Malformed", "Replayed", "Misaddressed", "Runtime"}
Outcomes == {"Applied", "AppliedWithoutResponse", "Uncertain"} \cup Refusals
AppliedOutcomes == {"Applied", "AppliedWithoutResponse"}

\* reply: the receipt, once there is one. What request() returned is not kept: a
\* requester that waits in vain is one that makes no use of the receipt.
Conn == [intent : Intent, id : 1..MaxConns, stage : {"queued", "deciding", "served", "lost"},
         reply : Outcomes \cup {"none"}]
NoJob == [pc |-> "idle", conn |-> 0, attempt |-> 0]

TypeOK ==
    /\ OnceTypeOK
    /\ DOMAIN maker = DOMAIN tried /\ \A i \in DOMAIN maker : maker[i] \in DOMAIN conns
    /\ Len(conns) <= MaxConns /\ \A c \in DOMAIN conns : conns[c] \in Conn
    /\ Len(window) <= MaxTrackedPeers
    /\ \A n \in DOMAIN window : window[n].peer \in Peer /\ Len(window[n].ids) <= MaxReplayWindow
    /\ admitted \subseteq Peer /\ uncertain \in BOOLEAN
    /\ host.pc \in {"idle", "dispatch", "settle", "down"} /\ host.conn \in 0..MaxConns
    /\ failures \in 0..MaxFailures

Init ==
    /\ OnceInit
    /\ maker = [i \in {} |-> 0]
    /\ conns = <<>> /\ window = <<>> /\ admitted = Peer
    /\ uncertain = FALSE /\ host = NoJob /\ failures = 0

Failure == failures < MaxFailures /\ failures' = failures + 1
Key0(c) == KeyOf[conns[c].intent]
Sender(c) == PeerOf[conns[c].intent]

-----------------------------------------------------------------------------
(* The requester *)

Ids(x) == {conns[c].id : c \in {d \in DOMAIN conns : conns[d].intent = x}}
FreshId == Len(conns) + 1

\* A keyed intent may be retried at any time under its key: after its receipt, after
\* a timeout while the host may still serve the frame, after a lost connection.
\* Without a key a request is made again only after its receipt said it was refused.
MayRetry(x) ==
    \/ KeyOf[x] # NoKey
    \/ \A c \in DOMAIN conns : conns[c].intent = x => conns[c].reply \in Refusals

\* The same frame again: with a key, the host tells its outcome apart.
MayResend(x, id) == id \in Ids(x) /\ KeyOf[x] # NoKey

Request(x, id) ==
    /\ Len(conns) < MaxConns
    /\ \/ id = FreshId /\ MayRetry(x)
       \/ MayResend(x, id)
    /\ conns' = Append(conns, [intent |-> x, id |-> id, stage |-> "queued",
                               reply |-> "none"])
    /\ UNCHANGED <<onceVars, maker, window, admitted, uncertain, host, failures>>

-----------------------------------------------------------------------------
(* ExecutionHost::decide, under the runtime lock *)

IsFenced == uncertain \/ open # {}

Seen(p, id) == \E n \in DOMAIN window : window[n].peer = p /\ \E m \in DOMAIN window[n].ids : window[n].ids[m] = id

\* ReplayWindow::spend: the peer moves to the most recent place; a new peer
\* pushes out the least recently used one, a new id the peer's oldest.
Spend(p, id) ==
    LET known == \E n \in DOMAIN window : window[n].peer = p
        ids == IF known THEN window[CHOOSE n \in DOMAIN window : window[n].peer = p].ids ELSE <<>>
        others == SelectSeq(window, LAMBDA w : w.peer # p)
        kept == IF ~known /\ Len(window) >= MaxTrackedPeers THEN Tail(others) ELSE others
        new == IF \E m \in DOMAIN ids : ids[m] = id THEN ids
               ELSE Append(IF Len(ids) >= MaxReplayWindow THEN Tail(ids) ELSE ids, id)
    IN Append(kept, [peer |-> p, ids |-> new])

Answer(c, reply) == conns' = [conns EXCEPT ![c].stage = "served", ![c].reply = reply]

\* Before anything is spent: the frame, the address, the policy, the fence.
RefusedEarly(c) ==
    LET x == conns[c].intent
    IN  CASE x \in Unreadable -> "Malformed"
          [] x \in Misaddressed \ Unreadable -> "Misaddressed"
          [] x \notin Unreadable \cup Misaddressed /\ (Sender(c) \notin admitted \/ IsFenced) -> "Runtime"
          [] OTHER -> "none"

DecideEarlyHanging(c) ==
    /\ host.pc = "idle" /\ conns[c].stage = "queued"
    /\ RefusedEarly(c) \in {"Malformed", "Misaddressed"}
    /\ Answer(c, RefusedEarly(c))
    /\ UNCHANGED <<onceVars, maker, window, admitted, uncertain, host, failures>>

DecideEarly(c) ==
    /\ host.pc = "idle" /\ conns[c].stage = "queued"
    /\ RefusedEarly(c) # "none"
    /\ Answer(c, RefusedEarly(c))
    /\ UNCHANGED <<onceVars, maker, window, admitted, uncertain, host, failures>>

\* register_session refuses an admitted peer before its id is spent: its policy entry is
\* not valid, or there is no room for another session.
DecideUnregistered(c) ==
    /\ host.pc = "idle" /\ conns[c].stage = "queued"
    /\ RefusedEarly(c) = "none"
    /\ Answer(c, "Runtime")
    /\ UNCHANGED <<onceVars, maker, window, admitted, uncertain, host, failures>>

\* The request reaches the replay window and spends its id there.
Admitted(c) ==
    /\ host.pc = "idle" /\ conns[c].stage = "queued"
    /\ RefusedEarly(c) = "none"
    /\ window' = Spend(Sender(c), conns[c].id)

DecideReplayed(c) ==
    /\ Admitted(c) /\ Seen(Sender(c), conns[c].id)
    /\ Answer(c, "Replayed")
    /\ UNCHANGED <<onceVars, maker, admitted, uncertain, host, failures>>

\* The key was spent on this very request, or on another action or principal.
BoundTo(c) == {i \in effects : tried[i] = Key0(c) /\ conns[maker[i]].intent = conns[c].intent}

DecideFromHistory(c, reply) ==
    /\ Admitted(c) /\ ~Seen(Sender(c), conns[c].id)
    /\ Spent(Key0(c))
    /\ reply \in IF BoundTo(c) # {} THEN AppliedOutcomes ELSE {"Runtime"}
    /\ Answer(c, reply)
    /\ UNCHANGED <<onceVars, maker, admitted, uncertain, host, failures>>

\* A grant, permit, capability or verifier check refuses; nothing is logged.
DecideRefused(c) ==
    /\ Admitted(c) /\ ~Seen(Sender(c), conns[c].id)
    /\ Answer(c, "Runtime")
    /\ UNCHANGED <<onceVars, maker, admitted, uncertain, host, failures>>

NextAttempt == Cardinality(DOMAIN tried) + 1

DecideAttempt(c) ==
    /\ Admitted(c) /\ ~Seen(Sender(c), conns[c].id)
    /\ Begin(NextAttempt, Key0(c))
    /\ maker' = [i \in DOMAIN tried \cup {NextAttempt} |-> IF i = NextAttempt THEN c ELSE maker[i]]
    /\ conns' = [conns EXCEPT ![c].stage = "deciding"]
    /\ host' = [pc |-> "dispatch", conn |-> c, attempt |-> NextAttempt]
    /\ UNCHANGED <<admitted, uncertain, failures>>

\* The attempt's append fails (ExecutionError::Audit): the record may be
\* durable, and nothing is dispatched.
DecideAuditFails(c) ==
    /\ Admitted(c) /\ ~Seen(Sender(c), conns[c].id) /\ ~Spent(Key0(c))
    /\ Failure
    /\ \/ /\ Begin(NextAttempt, Key0(c))
          /\ maker' = [i \in DOMAIN tried \cup {NextAttempt} |-> IF i = NextAttempt THEN c ELSE maker[i]]
       \/ UNCHANGED <<onceVars, maker>>
    /\ uncertain' = TRUE
    /\ Answer(c, "Runtime")
    /\ UNCHANGED <<admitted, host>>

\* refused_by_runtime, of what execute_prepared returns.
ReplyToExecutorErrorAsRefusal == "Runtime"
ReplyToExecutorError == "Uncertain"
ReplyToLostSettlementAsRefusal == "Runtime"
ReplyToLostSettlement == "AppliedWithoutResponse"

\* The executor applies the effect or not, and says so or not.
Execute(applies, ok) ==
    /\ host.pc = "dispatch" /\ (ok => applies)
    /\ IF applies THEN Apply(host.attempt) ELSE UNCHANGED onceVars
    /\ IF ok THEN host' = [host EXCEPT !.pc = "settle"] /\ UNCHANGED conns
             ELSE host' = NoJob /\ Answer(host.conn, ReplyToExecutorError)
    /\ UNCHANGED <<maker, window, admitted, uncertain, failures>>

Settle(reply) ==
    /\ host.pc = "settle" /\ reply \in AppliedOutcomes
    /\ Close(host.attempt)
    /\ Answer(host.conn, reply) /\ host' = NoJob
    /\ UNCHANGED <<maker, window, admitted, uncertain, failures>>

SettleFails ==
    /\ host.pc = "settle" /\ Failure
    /\ Close(host.attempt) \/ UNCHANGED onceVars
    /\ uncertain' = TRUE
    /\ Answer(host.conn, ReplyToLostSettlement) /\ host' = NoJob
    /\ UNCHANGED <<maker, window, admitted>>

-----------------------------------------------------------------------------
(* The host's operator and its machine *)

WithdrawPeer(p) ==
    /\ host.pc = "idle" /\ p \in admitted
    /\ admitted' = admitted \ {p}
    /\ UNCHANGED <<onceVars, maker, conns, window, uncertain, host, failures>>

Reconcile(i) ==
    /\ host.pc = "idle" /\ ~uncertain
    /\ Close(i)
    /\ UNCHANGED <<maker, conns, window, admitted, uncertain, host, failures>>

\* The process goes, with the replay window and every connection it held.
HostGone ==
    /\ host' = [NoJob EXCEPT !.pc = "down"]
    /\ window' = <<>> /\ uncertain' = FALSE
    /\ conns' = [c \in DOMAIN conns |->
                    IF conns[c].stage \in {"queued", "deciding"} THEN [conns[c] EXCEPT !.stage = "lost"]
                    ELSE conns[c]]
    /\ UNCHANGED <<onceVars, maker, admitted>>

Crash == host.pc # "down" /\ Failure /\ HostGone
DropUncertain == host.pc = "idle" /\ uncertain /\ HostGone /\ UNCHANGED failures

Restart ==
    /\ host.pc = "down" /\ host' = NoJob
    /\ UNCHANGED <<onceVars, maker, conns, window, admitted, uncertain, failures>>

Decide(c) ==
    \/ DecideEarly(c) \/ DecideUnregistered(c) \/ DecideReplayed(c) \/ DecideRefused(c)
    \/ DecideAttempt(c) \/ DecideAuditFails(c)
    \/ \E reply \in Outcomes : DecideFromHistory(c, reply)

Serve ==
    \/ \E c \in DOMAIN conns : Decide(c)
    \/ \E applies, ok \in BOOLEAN : Execute(applies, ok)
    \/ \E reply \in AppliedOutcomes : Settle(reply)
    \/ SettleFails

Recover == DropUncertain \/ Restart

Next ==
    \/ \E x \in Intent, id \in 1..MaxConns : Request(x, id)
    \/ Serve \/ Crash \/ Recover
    \/ \E p \in Peer : WithdrawPeer(p)
    \/ \E i \in open : Reconcile(i)

Spec == Init /\ [][Next]_vars

\* The host's caller keeps calling serve_once and restarts a lost host.
FairSpec == Spec /\ WF_vars(Serve) /\ WF_vars(Recover)

-----------------------------------------------------------------------------
(* Properties *)

AttemptsFor(x) == {i \in DOMAIN tried : conns[maker[i]].intent = x}

\* A requester that keeps to the rule of lib.rs (a retry is a new id under the
\* same key; without a key nothing that might have applied is asked for again)
\* has its intent applied at most once, whatever answer was lost or late and
\* however often the host was restarted.
IntentAppliesOnce == \A x \in Intent : Cardinality(AttemptsFor(x) \cap effects) <= 1

\* Receipts are true. Refused: nothing was attempted for that request, and nothing
\* it logged is ever applied later. Applied and AppliedWithoutResponse: the requester's
\* own action was applied; another principal's use of the same key is never reported
\* as one's own (WireOutcome).
ReceiptsAreTrue ==
    /\ \A i \in effects : conns[maker[i]].reply \notin Refusals
    /\ \A c \in DOMAIN conns : conns[c].reply \in AppliedOutcomes =>
          AttemptsFor(conns[c].intent) \cap effects # {}

\* Every request is answered, the refused ones too, unless the host is lost with it.
EveryRequestIsAnswered ==
    \A c \in 1..MaxConns :
        (c \in DOMAIN conns /\ conns[c].stage = "queued")
            ~> (c \in DOMAIN conns /\ conns[c].stage \in {"served", "lost"})
=============================================================================
