----------------------------- MODULE SpawnSlots -----------------------------
(***************************************************************************)
(* A tree of agents under two kinds of limit.                              *)
(*                                                                         *)
(*   task/parallel.ts              Semaphore, mapWithConcurrencyLimit-     *)
(*                                 AllSettled                              *)
(*   task/provider-concurrency.ts  one slot per model request, shared by   *)
(*                                 all agents                              *)
(*   task/index.ts                 one slot per running subagent, for each *)
(*                                 session that spawns                     *)
(*                                                                         *)
(* An agent makes Turns model calls; after each it may spawn children,     *)
(* inline ones, which its turn waits for, and background jobs.  An inline  *)
(* child may be detached into a job.  at[a] is where the agent's own code  *)
(* stands, so an agent whose acquire() was resolved is still at the place  *)
(* it waits at, but no longer in the queue.                                *)
(***************************************************************************)
EXTENDS SlotSemaphore, FiniteSets

CONSTANTS
    Agents, Root,
    Parent,          \* of every agent but the root
    Turns,           \* model calls of an agent
    ProviderLimits,  \* values of providers.*.maxConcurrency, 0 for unlimited
    SpawnLimits,     \* values of task.maxConcurrency, 0 for unlimited
    MaxChanges,      \* changes of the settings
    MaxAborts        \* aborts by the user, kills and job cancellations

ASSUME TreeAssumption ==
    /\ IsFiniteSet(Agents) /\ Root \in Agents
    /\ Parent \in [Agents \ {Root} -> Agents]
    /\ Turns \in Nat \ {0}
    /\ ProviderLimits \subseteq Nat /\ SpawnLimits \subseteq Nat
    /\ MaxChanges \in Nat /\ MaxAborts \in Nat

VARIABLES
    at,         \* none, slot, call, provider, stream, tools, ends or done
    calls,      \* model calls begun
    inline,     \* the agents whose parent's turn waits for them
    stopped,    \* the agents whose signal is aborted
    permits,    \* the agents for which a spawn slot is held
    streaming,  \* the agents whose model request is out
    provider,   \* the provider's semaphore
    spawn,      \* #spawnSemaphore of each session
    providerLimit, spawnLimit,  \* the settings
    changes, aborts

vars == <<at, calls, inline, stopped, permits, streaming, provider, spawn,
          providerLimit, spawnLimit, changes, aborts>>

Children(p) == {a \in Agents \ {Root} : Parent[a] = p}

Init ==
    /\ at = [a \in Agents |-> IF a = Root THEN "call" ELSE "none"]
    /\ calls = [a \in Agents |-> 0]
    /\ inline = {} /\ stopped = {} /\ permits = {} /\ streaming = {}
    /\ providerLimit \in ProviderLimits /\ spawnLimit \in SpawnLimits
    /\ provider = NewSemaphore(providerLimit)
    /\ spawn = [a \in Agents |-> NewSemaphore(spawnLimit)]
    /\ changes = 0 /\ aborts = 0

-----------------------------------------------------------------------------
(* Spawning.                                                               *)

\* #getSpawnSemaphore, and acquire() by the job's body or the inline call.
Spawn(a, isInline) ==
    LET p == Parent[a] IN
    /\ a # Root /\ at[a] = "none"
    /\ at[p] = "tools" /\ p \notin stopped
    /\ at' = [at EXCEPT ![a] = "slot"]
    /\ inline' = IF isInline THEN inline \cup {a} ELSE inline
    /\ spawn' = [spawn EXCEPT ![p] = Acquire(Resize(@, spawnLimit), a)]
    /\ UNCHANGED <<calls, stopped, permits, streaming, provider, providerLimit, spawnLimit,
                   changes, aborts>>

\* The acquire() has been resolved.  An abort in between ends the agent before
\* it starts; its slot is given back like any other.
Enter(a) ==
    /\ a # Root /\ at[a] = "slot" /\ a \notin Waiting(spawn[Parent[a]])
    /\ permits' = permits \cup {a}
    /\ at' = [at EXCEPT ![a] = IF a \in stopped THEN "ends" ELSE "call"]
    /\ UNCHANGED <<calls, inline, stopped, streaming, provider, spawn, providerLimit, spawnLimit,
                   changes, aborts>>

\* The agent's run is over: releasePermit, of the job or of the inline call.
Settle(a) ==
    /\ at[a] = "ends"
    /\ at' = [at EXCEPT ![a] = "done"]
    /\ permits' = permits \ {a}
    /\ spawn' = IF a \in permits
                THEN [spawn EXCEPT ![Parent[a]] = Release(Resize(@, spawnLimit))] ELSE spawn
    /\ UNCHANGED <<calls, inline, stopped, streaming, provider, providerLimit, spawnLimit,
                   changes, aborts>>

\* Mutant: the call gives the slot back although the run goes on.
DetachReleases(a) ==
    /\ a \in inline /\ a \in permits /\ at[a] \in {"call", "provider", "stream", "tools"}
    /\ at[Parent[a]] = "tools"
    /\ inline' = inline \ {a}
    /\ spawn' = [spawn EXCEPT ![Parent[a]] = Release(Resize(@, spawnLimit))]
    /\ permits' = permits \ {a}
    /\ UNCHANGED <<at, calls, stopped, streaming, provider, providerLimit, spawnLimit, changes, aborts>>

\* agents.detach: a job adopts the run, with the slot it holds.
Detach(a) ==
    /\ a \in inline /\ a \in permits /\ at[a] \in {"call", "provider", "stream", "tools"}
    /\ at[Parent[a]] = "tools"
    /\ inline' = inline \ {a}
    /\ UNCHANGED <<at, calls, stopped, permits, streaming, provider, spawn, providerLimit, spawnLimit,
                   changes, aborts>>

-----------------------------------------------------------------------------
(* Model calls.                                                            *)

\* getProviderSemaphore and acquire(), which throws on an aborted signal.
Call(a) ==
    /\ at[a] = "call"
    /\ provider' = IF a \in stopped THEN Resize(provider, providerLimit)
                   ELSE Acquire(Resize(provider, providerLimit), a)
    /\ at' = [at EXCEPT ![a] = IF a \in stopped THEN "ends" ELSE "provider"]
    /\ calls' = [calls EXCEPT ![a] = @ + 1]
    /\ UNCHANGED <<inline, stopped, permits, streaming, spawn, providerLimit, spawnLimit, changes, aborts>>

\* The request goes out; the loop of an aborted agent does not wait for it.
Request(a) ==
    /\ at[a] = "provider" /\ a \notin Waiting(provider)
    /\ streaming' = streaming \cup {a}
    /\ at' = [at EXCEPT ![a] = IF a \in stopped THEN "ends" ELSE "stream"]
    /\ UNCHANGED <<calls, inline, stopped, permits, provider, spawn, providerLimit, spawnLimit,
                   changes, aborts>>

\* Mutant: an agent keeps its slot while its tools run.
StreamKeepsSlot(a) ==
    /\ a \in streaming /\ at[a] # "tools"
    /\ \/ at[a] \in {"ends", "done"}
          /\ streaming' = streaming \ {a} /\ provider' = Release(provider) /\ UNCHANGED at
       \/ at[a] = "stream" /\ at' = [at EXCEPT ![a] = "tools"] /\ UNCHANGED <<streaming, provider>>
    /\ UNCHANGED <<calls, inline, stopped, permits, spawn, providerLimit, spawnLimit, changes, aborts>>

\* The provider has finished producing, or base() threw: the slot is given
\* back.
StreamSettles(a) ==
    /\ a \in streaming
    /\ streaming' = streaming \ {a}
    /\ provider' = Release(provider)
    /\ at' = IF at[a] = "stream" THEN [at EXCEPT ![a] = "tools"] ELSE at
    /\ UNCHANGED <<calls, inline, stopped, permits, spawn, providerLimit, spawnLimit, changes, aborts>>

\* Every inline child that was launched has settled.
ToolsSettled(a) == \A c \in Children(a) \cap inline : at[c] \in {"none", "done"}

\* The turn is over.  The last one asked for no tool, or failed.
NextTurn(a) ==
    /\ at[a] = "tools" /\ ToolsSettled(a)
    /\ \/ at' = [at EXCEPT ![a] = "ends"]
       \/ /\ a \notin stopped /\ calls[a] < Turns
          /\ at' = [at EXCEPT ![a] = "call"]
    /\ UNCHANGED <<calls, inline, stopped, permits, streaming, provider, spawn, providerLimit,
                   spawnLimit, changes, aborts>>

-----------------------------------------------------------------------------
(* Aborts and settings.                                                    *)

\* A signal is aborted: waiters leave their queue, a loop stops reading.
Stop(a) ==
    LET waits == IF at[a] = "slot" THEN a \in Waiting(spawn[Parent[a]])
                 ELSE at[a] = "provider" /\ a \in Waiting(provider)
    IN
    /\ a \notin stopped /\ at[a] \notin {"none", "done"}
    /\ stopped' = stopped \cup {a}
    /\ at' = IF waits \/ at[a] = "stream" THEN [at EXCEPT ![a] = "ends"] ELSE at
    /\ spawn' = IF at[a] = "slot" THEN [spawn EXCEPT ![Parent[a]] = Leave(@, a)] ELSE spawn
    /\ provider' = IF at[a] = "provider" THEN Leave(provider, a) ELSE provider
    /\ UNCHANGED <<calls, inline, permits, streaming, providerLimit, spawnLimit, changes>>

\* The user, agents.kill, or the cancellation of a job.
Abort(a) ==
    /\ a \in inline => at[a] # "slot"
    /\ aborts < MaxAborts /\ aborts' = aborts + 1
    /\ Stop(a)

\* The signal of a turn reaches the inline children.
Forward(a) ==
    /\ a \in inline /\ Parent[a] \in stopped
    /\ Stop(a)
    /\ UNCHANGED aborts

Change ==
    /\ changes < MaxChanges /\ changes' = changes + 1
    /\ \/ providerLimit' \in ProviderLimits \ {providerLimit} /\ UNCHANGED spawnLimit
       \/ spawnLimit' \in SpawnLimits \ {spawnLimit} /\ UNCHANGED providerLimit
    /\ UNCHANGED <<at, calls, inline, stopped, permits, streaming, provider, spawn, aborts>>

Step(a) ==
    \/ Enter(a) \/ Settle(a) \/ Call(a) \/ Request(a) \/ StreamSettles(a) \/ NextTurn(a) \/ Forward(a)

Next ==
    \/ \E a \in Agents : \/ Step(a) \/ Detach(a) \/ Abort(a)
                         \/ Spawn(a, TRUE) \/ Spawn(a, FALSE)
    \/ Change

Spec == Init /\ [][Next]_vars

\* Promise reactions run, and a provider ends or fails every request.
Fairness == \A a \in Agents : WF_vars(Step(a))

FairSpec == Spec /\ Fairness

-----------------------------------------------------------------------------
Places == {"none", "slot", "call", "provider", "stream", "tools", "ends", "done"}

\* Types; a queue holds only agents that wait there, each once.
TypeOK ==
    /\ at \in [Agents -> Places] /\ calls \in [Agents -> Nat]
    /\ inline \subseteq Agents \ {Root} /\ stopped \subseteq Agents
    /\ permits \subseteq Agents \ {Root} /\ streaming \subseteq Agents
    /\ provider \in Semaphores(Agents) /\ spawn \in [Agents -> Semaphores(Agents)]
    /\ providerLimit \in Nat /\ spawnLimit \in Nat /\ changes \in Nat /\ aborts \in Nat
    /\ Once(provider) /\ \A a \in Waiting(provider) : at[a] = "provider" /\ a \notin stopped
    /\ \A p \in Agents :
          /\ Once(spawn[p])
          /\ \A a \in Waiting(spawn[p]) : a \in Children(p) /\ at[a] = "slot" /\ a \notin stopped

\* Who a semaphore's slots are counted for: requests that are out, subagents
\* that run, and those admitted whose code has not noticed.
Requesting == streaming \cup {a \in Agents : at[a] = "provider" /\ a \notin Waiting(provider)}
Placed(p)  ==
    {a \in Children(p) : \/ at[a] \in {"call", "provider", "stream", "tools"}
                         \/ at[a] = "ends" /\ a \in permits
                         \/ at[a] = "slot" /\ a \notin Waiting(spawn[p])}

\* Every slot counted is somebody's, and everybody's is counted: whatever
\* aborts, failures, detaches and changed limits meet, none leaks and none is
\* given back twice.
SlotsAccounted ==
    /\ provider.used = Cardinality(Requesting)
    /\ \A p \in Agents : spawn[p].used = Cardinality(Placed(p))

\* Nobody waits for a slot that is free, also after an aborted waiter left,
\* a limit was raised, or one release found the limit lowered.
NoIdleSlot ==
    /\ provider.queue # <<>> => ~Free(provider)
    /\ \A p \in Agents : spawn[p].queue # <<>> => ~Free(spawn[p])

\* Somebody is given a slot in the step from s to t; left have been aborted.
Admits(s, t, left) == t.used > s.used \/ ~(Waiting(s) \subseteq Waiting(t) \cup left)

\* No admission takes more slots than the limit of the moment: the setting for
\* subagents, the limit last noted for requests.
CapRespected ==
    [][/\ Admits(provider, provider', stopped') => provider'.max = 0 \/ provider'.used <= provider'.max
       /\ \A p \in Agents : Admits(spawn[p], spawn'[p], stopped')
                                => spawnLimit = 0 \/ spawn'[p].used <= spawnLimit]_vars

\* b was waiting behind a in s and is admitted, and a is not.
Overtakes(s, t, left) ==
    \E i, j \in DOMAIN s.queue :
        /\ i < j /\ s.queue[j] \notin Waiting(t) \cup left
        /\ s.queue[i] \in Waiting(t)

\* Slots are given in the order they were asked for; a newcomer gets one at
\* once only when nobody waits.
FirstComeFirstServed ==
    [][/\ ~Overtakes(provider, provider', stopped')
       /\ \A p \in Agents : ~Overtakes(spawn[p], spawn'[p], stopped')
       /\ \A a \in Requesting' \ (Requesting \cup Waiting(provider)) : provider'.queue = <<>>
       /\ \A p \in Agents : \A a \in Placed(p)' \ (Placed(p) \cup Waiting(spawn[p])) :
              spawn'[p].queue = <<>>]_vars

\* provider-concurrency.ts:4-12: a spawn tree wider than the limit does not
\* deadlock on itself.  The root and all it spawned end.
TreeEnds == <>(\A a \in Agents : at[a] \in {"none", "done"})
=============================================================================
