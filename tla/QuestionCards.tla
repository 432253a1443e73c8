--------------------------- MODULE QuestionCards ----------------------------
(***************************************************************************)
(* The questions an agent puts to its user, and the cards that show them.  *)
(*                                                                         *)
(*   daemon/approval-bridge.ts    tool approvals and asks that wait        *)
(*   daemon/session-host.ts       broadcast, snapshot, attach and replay   *)
(*   daemon/event-batcher.ts      the frames of a connection               *)
(*   desktop app.tsx, session-store.ts                                     *)
(*                                the approvals of the store, the one ask  *)
(*                                card of the app                          *)
(*                                                                         *)
(* One live session; a client shows it or another one.  A response goes    *)
(* out at once, frames wait in the batcher.  A client that opens the       *)
(* session is answered with a snapshot first and attached after it, so a   *)
(* question can be raised or settled in between.                           *)
(***************************************************************************)
EXTENDS EventBatcher, Selection, Functions

CONSTANTS
    Clients, Approvals, Asks, None,
    MaxMoves     \* opens of the session, switches to another, connections lost

ASSUME CardsAssumption ==
    /\ Approvals \cap Asks = {} /\ None \notin Approvals \cup Asks
    /\ MaxMoves \in Nat

Questions == Approvals \cup Asks

VARIABLES
    pending,   \* those in the tables, in the order they were raised
    verdict,   \* what settled a question, or new or open
    told,      \* what the asker got
    timers,    \* those with an armed timeout
    recent,    \* recentApprovals and recentAsks
    up,        \* the clients with a connection
    attached,  \* live.subscribers
    batcher,   \* of each connection
    wire,      \* sent and not yet read
    opening,   \* no, asked, captured (a snapshot waits for its response), replied
    snap,      \* the questions in that snapshot
    wanted,    \* the client still wants the session it asked for
    shown,     \* the clients whose store is the session's
    cards,     \* approvals of the store
    slot,      \* pendingAsk of the app
    later,     \* deferredResolutionsRef
    clicked,   \* approvals answered from the store now mounted
    calls,     \* answers on their way
    missed,    \* asks forgotten by the bridge while the client was not attached
    moves

bridge == <<pending, verdict, told, timers, recent>>
server == <<attached, opening, snap>>
screen == <<wanted, shown, cards, slot, later, clicked>>
vars == <<bridge, server, screen, up, batcher, wire, calls, missed, moves>>

InTable == Range(pending)

\* The frames a client reads.
Request(q)  == [kind |-> "request", q |-> q]
End(q, v)   == [kind |-> "end", q |-> q, verdict |-> v]
Snapshot(s) == [kind |-> "snapshot", pending |-> s]
Done(q)     == [kind |-> "done", q |-> q]

\* What a list of questions is told to a connection as.
Requests(s) == [k \in DOMAIN s |-> Request(s[k])]
Ends(s)     == [k \in DOMAIN s |-> End(s[k], verdict[s[k]])]

\* Frames pushed to the connections of C, and a response after them.
Push(C, fs, reply) ==
    \E held \in BOOLEAN :
        LET push(c) == IF c \in C THEN PushAll(batcher[c], fs, held)
                       ELSE [b |-> batcher[c], out |-> <<>>]
        IN  /\ batcher' = [c \in Clients |-> push(c).b]
            /\ wire' = [c \in Clients |-> wire[c] \o push(c).out \o reply[c]]

NoReply     == [c \in Clients |-> <<>>]
Reply(c, f) == [NoReply EXCEPT ![c] = <<f>>]

\* Every client has connected and asks for the session.
Init ==
    /\ pending = <<>> /\ timers = {} /\ recent = <<>>
    /\ verdict = [q \in Questions |-> "new"] /\ told = [q \in Questions |-> "waits"]
    /\ up = Clients /\ attached = {} /\ shown = {} /\ wanted = Clients
    /\ batcher = [c \in Clients |-> NewBatcher] /\ wire = [c \in Clients |-> <<>>]
    /\ opening = [c \in Clients |-> "asked"] /\ snap = [c \in Clients |-> <<>>]
    /\ cards = [c \in Clients |-> {}] /\ slot = [c \in Clients |-> None]
    /\ later = [c \in Clients |-> {}] /\ clicked = [c \in Clients |-> {}]
    /\ calls = {} /\ missed = [c \in Clients |-> {}]
    /\ moves = 0

-----------------------------------------------------------------------------
(* The bridge.                                                             *)

\* Mutant: the wait has no timeout.
RaiseUntimed(q) ==
    /\ verdict[q] = "new" /\ verdict' = [verdict EXCEPT ![q] = "open"]
    /\ pending' = Append(pending, q)
    /\ Push(attached, <<Request(q)>>, NoReply)
    /\ UNCHANGED <<told, timers, recent, server, screen, up, calls, missed, moves>>

\* select, input and askDialog.
Raise(q) ==
    /\ verdict[q] = "new" /\ verdict' = [verdict EXCEPT ![q] = "open"]
    /\ pending' = Append(pending, q) /\ timers' = timers \cup {q}
    /\ Push(attached, <<Request(q)>>, NoReply)
    /\ UNCHANGED <<told, recent, server, screen, up, calls, missed, moves>>

\* Mutant: the settlement of an ask is broadcast and not remembered.
RememberApprovals(q) == IF q \in Approvals THEN Append(recent, q) ELSE recent

\* rememberApproval and rememberAsk.
Remember(q) == Append(recent, q)

\* The record resolves its promise, the end is broadcast and remembered.
Settle(q, v, reply) ==
    /\ pending' = Only(pending, Questions \ {q}) /\ timers' = timers \ {q}
    /\ verdict' = [verdict EXCEPT ![q] = v]
    /\ told' = IF told[q] = "waits" THEN [told EXCEPT ![q] = v] ELSE told
    /\ recent' = Remember(q)
    /\ Push(attached, <<End(q, v)>>, reply)

\* Mutant: an answer is taken whether or not the question is still open.
ResolveAnyway(q, v, reply) ==
    IF verdict[q] # "new" THEN Settle(q, v, reply) ELSE UNCHANGED <<bridge, batcher, wire>>

\* resolve and resolveAsk: the first answer wins, the error of a later one
\* only shows a message.
Resolve(q, v, reply) ==
    IF q \in InTable THEN Settle(q, v, reply) ELSE UNCHANGED <<bridge, batcher, wire>>

\* armTimeout's callback: a denial, or no answer.
Timeout(q) ==
    /\ q \in timers
    /\ Settle(q, "no", NoReply)
    /\ UNCHANGED <<server, screen, up, calls, missed, moves>>

\* The tray, the pet panel, or a device that is not modelled.
Elsewhere(q, v) ==
    /\ q \in InTable
    /\ Resolve(q, v, NoReply)
    /\ UNCHANGED <<server, screen, up, calls, missed, moves>>

\* tool.approve, tool.deny and session.askAnswer.
Handle(c, q, v) ==
    /\ <<c, q, v>> \in calls /\ calls' = calls \ {<<c, q, v>>}
    /\ Resolve(q, v, IF q \in Approvals THEN Reply(c, Done(q)) ELSE NoReply)
    /\ UNCHANGED <<server, screen, up, missed, moves>>

\* pruneRecent.  A frame and an open take less than RECENT_TTL_MS.
Expire(q) ==
    /\ q \in Range(recent)
    /\ \A c \in Clients : opening[c] = "no" /\ wire[c] = <<>> /\ batcher[c].queue = <<>>
    /\ recent' = Only(recent, Questions \ {q})
    /\ missed' = [c \in Clients |-> IF c \in attached THEN missed[c] ELSE missed[c] \cup ({q} \cap Asks)]
    /\ UNCHANGED <<pending, verdict, told, timers, server, screen, up, batcher, wire, calls, moves>>

-----------------------------------------------------------------------------
(* Opening the session.                                                    *)

\* session.resume: the questions ride the snapshot.
Capture(c) ==
    /\ opening[c] = "asked"
    /\ opening' = [opening EXCEPT ![c] = "captured"]
    /\ snap' = [snap EXCEPT ![c] = pending]
    /\ UNCHANGED <<bridge, attached, screen, up, batcher, wire, calls, missed, moves>>

\* The settlements since are replayed, the response is written.
Respond(c) ==
    /\ opening[c] = "captured"
    /\ opening' = [opening EXCEPT ![c] = "replied"]
    /\ snap' = [snap EXCEPT ![c] = <<>>]
    /\ Push({c}, Ends(recent), Reply(c, Snapshot(snap[c])))
    /\ UNCHANGED <<bridge, attached, screen, up, calls, missed, moves>>

\* Mutant: only settlements are replayed.
AttachEnds(c) ==
    /\ opening[c] = "replied"
    /\ opening' = [opening EXCEPT ![c] = "no"]
    /\ attached' = attached \cup {c}
    /\ Push({c}, Ends(recent), NoReply)
    /\ UNCHANGED <<bridge, snap, screen, up, calls, missed, moves>>

\* catchupIfNeeded: the stream is attached, and what is open and what was
\* settled lately is replayed to it.
Attach(c) ==
    /\ opening[c] = "replied"
    /\ opening' = [opening EXCEPT ![c] = "no"]
    /\ attached' = attached \cup {c}
    /\ Push({c}, Requests(pending) \o Ends(recent), NoReply)
    /\ UNCHANGED <<bridge, snap, screen, up, calls, missed, moves>>

\* The timer of the batcher.
FlushFires(c, held) ==
    /\ c \in up /\ batcher[c].timer
    /\ batcher' = [batcher EXCEPT ![c] = FlushNow(@, held)]
    /\ wire' = [wire EXCEPT ![c] = @ \o Sent(batcher[c], held)]
    /\ UNCHANGED <<bridge, server, screen, up, calls, missed, moves>>

-----------------------------------------------------------------------------
(* The client.                                                             *)

\* One open of the session at a time.
Ask(c) ==
    /\ c \in up /\ opening[c] = "no" /\ c \notin wanted
    /\ \A k \in DOMAIN wire[c] : wire[c][k].kind # "snapshot"
    /\ opening' = [opening EXCEPT ![c] = "asked"]
    /\ wanted' = wanted \cup {c}

\* The user opens the session, or a resync does.
Open(c) ==
    /\ moves < MaxMoves /\ moves' = moves + 1
    /\ Ask(c)
    /\ UNCHANGED <<bridge, attached, snap, shown, cards, slot, later, clicked, up,
                   batcher, wire, calls, missed>>

\* The store of another session is mounted; an open under way is superseded.
LookAway(c) ==
    /\ moves < MaxMoves /\ moves' = moves + 1
    /\ c \in shown \cup wanted
    /\ shown' = shown \ {c} /\ wanted' = wanted \ {c}
    /\ cards' = [cards EXCEPT ![c] = {}] /\ clicked' = [clicked EXCEPT ![c] = {}]
    /\ UNCHANGED <<bridge, server, slot, later, up, batcher, wire, calls, missed>>

Read(c) == wire' = [wire EXCEPT ![c] = Tail(@)]

\* An ask takes the card, whatever is shown; an approval of a session that is
\* not shown is left to the snapshot.
ReadRequest(c, f) ==
    /\ f.kind = "request"
    /\ slot' = IF f.q \in Asks THEN [slot EXCEPT ![c] = f.q] ELSE slot
    /\ cards' = IF f.q \in Approvals /\ c \in shown THEN [cards EXCEPT ![c] = @ \cup {f.q}] ELSE cards
    /\ UNCHANGED <<wanted, shown, later, clicked>>

\* A settlement for a store that is not mounted is kept for it.
ReadEnd(c, f) ==
    /\ f.kind = "end"
    /\ slot' = IF slot[c] = f.q THEN [slot EXCEPT ![c] = None] ELSE slot
    /\ cards' = [cards EXCEPT ![c] = @ \ {f.q}]
    /\ later' = IF c \in shown THEN later ELSE [later EXCEPT ![c] = @ \cup {f.q}]
    /\ UNCHANGED <<wanted, shown, clicked>>

FirstAsk(s) == LET asks == Only(s, Asks) IN
               IF asks = <<>> THEN None ELSE Head(asks)

\* The first ask takes the card.  Unless the user went on, the store is made
\* from the snapshot and the settlements kept for it are applied.
ReadSnapshot(c, f) ==
    LET ask  == IF FirstAsk(f.pending) = None THEN slot[c] ELSE FirstAsk(f.pending)
        held == Range(f.pending) \cap Approvals
    IN
    /\ f.kind = "snapshot"
    /\ IF c \in wanted
       THEN /\ slot' = [slot EXCEPT ![c] = IF ask \in later[c] THEN None ELSE ask]
            /\ cards' = [cards EXCEPT ![c] = held \ later[c]]
            /\ later' = [later EXCEPT ![c] = {}] /\ clicked' = [clicked EXCEPT ![c] = {}]
            /\ shown' = shown \cup {c} /\ wanted' = wanted \ {c}
       ELSE slot' = [slot EXCEPT ![c] = ask] /\ UNCHANGED <<wanted, shown, cards, later, clicked>>

\* dismissApproval, on the store the answer was given from.
ReadDone(c, f) ==
    /\ f.kind = "done"
    /\ cards' = IF f.q \in clicked[c] THEN [cards EXCEPT ![c] = @ \ {f.q}] ELSE cards
    /\ UNCHANGED <<wanted, shown, slot, later, clicked>>

Deliver(c) ==
    LET f == Head(wire[c]) IN
    /\ c \in up /\ wire[c] # <<>> /\ Read(c)
    /\ ReadRequest(c, f) \/ ReadEnd(c, f) \/ ReadSnapshot(c, f) \/ ReadDone(c, f)
    /\ UNCHANGED <<bridge, server, up, batcher, calls, missed, moves>>

\* decideApproval: the card stays until the daemon has answered.
Decide(c, q, v) ==
    /\ c \in up \cap shown /\ q \in cards[c] \ clicked[c]
    /\ clicked' = [clicked EXCEPT ![c] = @ \cup {q}]
    /\ calls' = calls \cup {<<c, q, v>>}
    /\ UNCHANGED <<bridge, server, wanted, shown, cards, slot, later, up, batcher, wire, missed, moves>>

\* answerAsk: the card goes first; without a connection the answer is lost.
AnswerAsk(c, v) ==
    /\ c \in shown /\ slot[c] # None
    /\ slot' = [slot EXCEPT ![c] = None]
    /\ calls' = IF c \in up THEN calls \cup {<<c, slot[c], v>>} ELSE calls
    /\ UNCHANGED <<bridge, server, wanted, shown, cards, later, clicked, up, batcher, wire, missed, moves>>

\* The connection is lost: the daemon detaches the client, an open fails and
\* leaves no store.  Answers under way are lost.
Drop(c) ==
    /\ c \in up /\ moves < MaxMoves /\ moves' = moves + 1
    /\ up' = up \ {c} /\ attached' = attached \ {c}
    /\ opening' = [opening EXCEPT ![c] = "no"] /\ snap' = [snap EXCEPT ![c] = <<>>]
    /\ batcher' = [batcher EXCEPT ![c] = NewBatcher] /\ wire' = [wire EXCEPT ![c] = <<>>]
    /\ calls' = {x \in calls : x[1] # c}
    /\ wanted' = wanted \ {c}
    /\ IF c \in wanted
       THEN /\ shown' = shown \ {c} /\ cards' = [cards EXCEPT ![c] = {}]
            /\ clicked' = [clicked EXCEPT ![c] = {}]
       ELSE UNCHANGED <<shown, cards, clicked>>
    /\ UNCHANGED <<bridge, slot, later, missed>>

\* The session that was shown is opened again.
Reconnect(c) ==
    /\ c \notin up /\ up' = up \cup {c}
    /\ IF c \in shown
       THEN opening' = [opening EXCEPT ![c] = "asked"] /\ wanted' = wanted \cup {c}
       ELSE UNCHANGED <<opening, wanted>>
    /\ UNCHANGED <<bridge, attached, snap, shown, cards, slot, later, clicked, batcher, wire,
                   calls, missed, moves>>

-----------------------------------------------------------------------------
\* What matters of two answers is that they differ.
Next ==
    \/ \E q \in Questions : Raise(q) \/ Timeout(q) \/ Expire(q) \/ Elsewhere(q, "no")
    \/ \E c \in Clients :
          \/ Open(c) \/ LookAway(c) \/ Capture(c) \/ Respond(c) \/ Attach(c) \/ Deliver(c)
          \/ Drop(c) \/ Reconnect(c)
          \/ \E held \in BOOLEAN : FlushFires(c, held)
          \/ AnswerAsk(c, "yes") \/ \E q \in Questions : Decide(c, q, "yes") \/ Handle(c, q, "yes")

Spec == Init /\ [][Next]_vars

-----------------------------------------------------------------------------
Verdicts == {"yes", "no"}

Frames ==
    [kind : {"request", "done"}, q : Questions] \cup [kind : {"end"}, q : Questions, verdict : Verdicts]
    \cup [kind : {"snapshot"}, pending : Seq(Questions)]

\* Types; the table holds the open questions, each once and under a timeout.
TypeOK ==
    /\ pending \in Seq(Questions) /\ recent \in Seq(Questions)
    /\ verdict \in [Questions -> Verdicts \cup {"new", "open"}]
    /\ told \in [Questions -> Verdicts \cup {"waits"}]
    /\ up \subseteq Clients /\ attached \subseteq up /\ shown \subseteq Clients
    /\ wanted \subseteq up
    /\ opening \in [Clients -> {"no", "asked", "captured", "replied"}]
    /\ snap \in [Clients -> Seq(Questions)]
    /\ cards \in [Clients -> SUBSET Approvals] /\ slot \in [Clients -> Asks \cup {None}]
    /\ later \in [Clients -> SUBSET Questions] /\ clicked \in [Clients -> SUBSET Approvals]
    /\ calls \subseteq Clients \X Questions \X Verdicts /\ missed \in [Clients -> SUBSET Asks]
    /\ batcher \in [Clients -> Batchers(Frames)] /\ wire \in [Clients -> Seq(Frames)]
    /\ \A c \in Clients : c \notin shown => cards[c] = {}
    /\ InTable = {q \in Questions : verdict[q] = "open"} /\ timers = InTable
    /\ IsInjective(pending)

\* Whoever answers first, the timeout included, the asker and every device are
\* told the same; nobody is told before.
OneVerdict ==
    /\ \A q \in Questions : told[q] \in {"waits", verdict[q]}
    /\ \A c \in Clients : \A f \in Range(wire[c]) \cup Range(batcher[c].queue) :
          f.kind = "end" => f.verdict = verdict[f.q]

\* Nothing is under way between the daemon and a client that shows the session.
Rest(c) ==
    /\ c \in up \cap shown /\ opening[c] = "no" /\ c \notin wanted
    /\ wire[c] = <<>> /\ batcher[c].queue = <<>>

\* A client that shows the session shows the approvals that wait, all of them
\* and no other, however they were raised and settled around its opens.
ApprovalsShown == \A c \in Clients : Rest(c) => cards[c] = InTable \cap Approvals

\* Its ask card, if there is one, is of an ask that waits, except after a
\* settlement that was forgotten while the client was not attached.
AskCardIsOpen == \A c \in Clients : Rest(c) => slot[c] \in {None} \cup InTable \cup missed[c]

\* Frames that wait in a batcher have a timer.
BatchesLeave == \A c \in Clients : NothingStuck(batcher[c])

\* app.tsx:1538-1542: a client does not keep the ask card of a question the
\* daemon has dropped.  It does, after an outage longer than the daemon
\* remembers settlements.
NoStaleAskCard == \A c \in Clients : Rest(c) => slot[c] \in {None} \cup InTable

\* session-host.ts:3249-3253: an ask that waits surfaces on a client that is
\* attached.  The app has one card: the next ask takes it.
AskSurfaces ==
    \A c \in Clients : Rest(c) /\ slot[c] = None => \A q \in InTable \cap Asks : q \in {x[2] : x \in calls}
=============================================================================
