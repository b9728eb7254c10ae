------------------------------ MODULE Support ------------------------------
(***************************************************************************)
(* Support tickets (support.service.ts) and the bot that answers them      *)
(* first (supportBot.service.ts): one run per ticket at a time, runs       *)
(* queued behind it, and what happens when an agent, an admin or a failing *)
(* language model comes between.  Messages are who wrote them; what they   *)
(* say, the help library and the lookups only decide between the outcomes  *)
(* of a model call.                                                        *)
(***************************************************************************)
EXTENDS Handlers

CONSTANTS
    Tickets,
    Redis,              \* where the run and rerun marks are kept
    MaxReplies,         \* maxRepliesPerTicket
    MaxModelCalls,      \* MAX_MODEL_CALLS
    MaxMessages,        \* bounds: messages after which owner and agents fall
    MaxExpiries,        \* silent, run locks that expire, restarts
    MaxRestarts

ASSUME SupportConstants ==
    /\ Redis \in BOOLEAN
    /\ {MaxReplies, MaxModelCalls, MaxMessages, MaxExpiries, MaxRestarts} \subseteq Nat

VARIABLES
    ticket,     \* support_tickets, or NoTicket
    history,    \* support_messages of each ticket: who wrote them, in order
    botOn,      \* enabled in the newest row of support_bot_configs, and the
                \* deployment has an ANTHROPIC_API_KEY
    running,    \* runningTickets, or the support-bot-run keys
    rerun,      \* rerunTickets, or the support-bot-rerun keys
    expiries,
    restarts,
    covered,    \* history: how many messages had been read for a bot's message
    onTime,     \* history: the last message of the owner that came while no run
                \* was writing, having read less
    lost        \* history: tickets a failing database or Redis has lost a run
                \* or a hand-over of

desk == <<ticket, history>>
marks == <<running, rerun>>
told == <<covered, onTime, lost>>
supportVars == <<desk, botOn, marks, expiries, restarts, told>>

-----------------------------------------------------------------------------
(* Rows *)

TicketStatuses == {"open", "in_progress", "waiting_on_customer", "resolved", "closed"}
TicketRow == [status : TicketStatuses, needsAgent : BOOLEAN]
NoTicket == [status |-> "none", needsAgent |-> FALSE]
Opened(k) == ticket[k] # NoTicket
Senders == {"owner", "agent", "bot"}

From(k, who) == {i \in DOMAIN history[k] : history[k][i] = who}
LastFromOwner(k) == Opened(k) /\ history[k][Len(history[k])] = "owner"
\* An owner who writes brings the ticket back, unless somebody works on it.
Reopens(k) == ticket[k].status \in {"resolved", "closed", "waiting_on_customer"}

SupportInit ==
    /\ ticket = [k \in Tickets |-> NoTicket]
    /\ history = [k \in Tickets |-> <<>>]
    /\ botOn \in BOOLEAN
    /\ running = {}
    /\ rerun = {}
    /\ expiries = 0
    /\ restarts = 0
    /\ covered = [k \in Tickets |-> 0]
    /\ onTime = [k \in Tickets |-> 0]
    /\ lost = {}

addMessage(k, who) == history' = [history EXCEPT ![k] = Append(@, who)]

-----------------------------------------------------------------------------
(* The owner, in the host or user app *)

\* The steps of a run that has read the ticket's messages.
Writing == {"ask", "runTools", "recheck", "mark", "markLimit", "reply"}

On(step, k) == [at |-> step, ticket |-> k]
CanWrite(k) == Len(history[k]) < MaxMessages

Writes(t, k) == task[t].at \in Writing /\ task[t].ticket = k

ownerMessage(k) ==
    /\ addMessage(k, "owner")
    /\ onTime' = IF \E t \in Tasks : Writes(t, k) THEN onTime
                 ELSE [onTime EXCEPT ![k] = Len(history[k]) + 1]
    /\ UNCHANGED <<covered, lost>>

createTicket(t, k) ==
    /\ ~Opened(k)
    /\ ticket' = [ticket EXCEPT ![k] = [status |-> "open", needsAgent |-> FALSE]]
    /\ ownerMessage(k)
    /\ Start(t, On("schedule", k))
    /\ UNCHANGED <<botOn, marks, expiries, restarts>>

addOwnerMessage(t, k) ==
    /\ Opened(k) /\ CanWrite(k)
    /\ Start(t, [at |-> "ownerWrites", ticket |-> k, reopens |-> Reopens(k)])
    /\ UNCHANGED supportVars

OwnerWrites(t) == LET k == task[t].ticket IN
    /\ At(t, "ownerWrites")
    /\ ownerMessage(k)
    /\ ticket' = [ticket EXCEPT ![k].status = IF task[t].reopens THEN "open" ELSE @]
    /\ Goto(t, On("schedule", k))
    /\ UNCHANGED <<botOn, marks, expiries, restarts>>

-----------------------------------------------------------------------------
(* One run at a time; messages that come meanwhile ask for one more *)

scheduleBotReply(t) == LET k == task[t].ticket IN
    /\ At(t, "schedule")
    /\ IF k \in running
       THEN rerun' = rerun \cup {k} /\ Done(t) /\ UNCHANGED running
       ELSE running' = running \cup {k} /\ Step(t, "readConfig") /\ UNCHANGED rerun
    /\ UNCHANGED <<desk, botOn, expiries, restarts, told>>

\* Mutant: the mark of a rerun is dropped when a run ends.
FinishRunAndForget(t) == LET k == task[t].ticket IN
    /\ At(t, "finish")
    /\ rerun' = rerun \ {k}
    /\ running' = running \ {k}
    /\ Done(t)
    /\ UNCHANGED <<desk, botOn, expiries, restarts, told>>

FinishRun(t) == LET k == task[t].ticket IN
    /\ At(t, "finish")
    /\ rerun' = rerun \ {k}
    /\ IF k \in rerun
       THEN Step(t, "readConfig") /\ UNCHANGED running
       ELSE running' = running \ {k} /\ Done(t)
    /\ UNCHANGED <<desk, botOn, expiries, restarts, told>>

\* BOT_RUN_LOCK_MS, after a restart or under a slow run; the mark of a rerun
\* expires with it once nobody runs.
Runs(k) == {t \in Tasks : task[t] # Idle /\ task[t].ticket = k
                          /\ task[t].at \notin {"schedule", "ownerWrites"}}
LockExpires(k) ==
    /\ Redis /\ k \in running
    /\ expiries < MaxExpiries
    /\ expiries' = expiries + 1
    /\ running' = running \ {k}
    /\ rerun' = IF Runs(k) = {} THEN rerun \ {k} ELSE rerun
    /\ UNCHANGED <<desk, botOn, restarts, told, task>>

-----------------------------------------------------------------------------
(* replyAsBot *)

getCurrentBotConfig(t) ==
    /\ At(t, "readConfig")
    /\ Step(t, IF botOn THEN "readTicket" ELSE "finish")
    /\ UNCHANGED supportVars

ReadTicket(t) == LET k == task[t].ticket IN
    /\ At(t, "readTicket")
    /\ Step(t, IF ticket[k].status = "closed" \/ ticket[k].needsAgent
               THEN "finish" ELSE "readHistory")
    /\ UNCHANGED supportVars

\* What a run has read of the ticket's messages, it goes on with.
Reading(step, k) == [at |-> step, ticket |-> k, seen |-> Len(history[k])]
Asking(k) == [at |-> "ask", ticket |-> k, seen |-> Len(history[k]), call |-> 1,
              handoff |-> FALSE]

\* Mutant: an agent's earlier reply does not keep the bot out.
ReadHistoryNoAgent(t) == LET k == task[t].ticket IN
    /\ At(t, "readHistory")
    /\ Goto(t, IF ~LastFromOwner(k) THEN On("finish", k)
               ELSE IF Cardinality(From(k, "bot")) >= MaxReplies
                    THEN Reading("markLimit", k)
               ELSE Asking(k))
    /\ UNCHANGED supportVars

ReadHistory(t) == LET k == task[t].ticket IN
    /\ At(t, "readHistory")
    /\ Goto(t, IF From(k, "agent") # {} \/ ~LastFromOwner(k) THEN On("finish", k)
               ELSE IF Cardinality(From(k, "bot")) >= MaxReplies
                    THEN Reading("markLimit", k)
               ELSE Asking(k))
    /\ UNCHANGED supportVars

\* A model call: an answer, a refusal, or the use of tools.
AskModel(t) ==
    /\ At(t, "ask")
    /\ \/ Step(t, "recheck")
       \/ Goto(t, [task[t] EXCEPT !.at = "recheck", !.handoff = TRUE])
       \/ Step(t, "runTools")
    /\ UNCHANGED supportVars

\* Lookups of the owner's account change nothing; the hand-off tool asks for a
\* person, and so does the last call allowed.
RunTools(t) ==
    /\ At(t, "runTools")
    /\ \E handoff \in {task[t].handoff, TRUE} :
           Goto(t, IF task[t].call < MaxModelCalls
                   THEN [task[t] EXCEPT !.at = "ask", !.call = @ + 1, !.handoff = handoff]
                   ELSE [task[t] EXCEPT !.at = "recheck", !.handoff = TRUE])
    /\ UNCHANGED supportVars

\* An agent may have answered while the model was thinking.
Recheck(t) == LET k == task[t].ticket IN
    /\ At(t, "recheck")
    /\ Goto(t, IF From(k, "agent") # {} THEN On("finish", k)
               ELSE [at |-> IF task[t].handoff THEN "mark" ELSE "reply", ticket |-> k,
                     seen |-> task[t].seen])
    /\ UNCHANGED supportVars

\* For a hand-off, or at the limit of replies; the bot's message says so.
MarkNeedsAgent(t) == LET k == task[t].ticket IN
    /\ task[t].at \in {"mark", "markLimit"}
    /\ ticket' = [ticket EXCEPT ![k].needsAgent = TRUE]
    /\ Step(t, "reply")
    /\ UNCHANGED <<history, botOn, marks, expiries, restarts, told>>

addBotMessage(t) == LET k == task[t].ticket IN
    /\ At(t, "reply")
    /\ addMessage(k, "bot")
    /\ covered' = [covered EXCEPT ![k] = IF task[t].seen > @ THEN task[t].seen ELSE @]
    /\ \E step \in {"finish", "failed"} : Goto(t, On(step, k))
    /\ UNCHANGED <<ticket, botOn, marks, expiries, restarts, onTime, lost>>

\* The model is down, slow or too long, or a call of the database fails.
ReplyFails(t) ==
    /\ task[t].at \in {"readConfig", "readTicket", "readHistory"} \cup Writing
    /\ Goto(t, On("failed", task[t].ticket))
    /\ UNCHANGED supportVars

\* A person is asked for, without a message; when that fails too, nobody is.
replyAsBotSafely(t) == LET k == task[t].ticket IN
    /\ At(t, "failed")
    /\ \/ ticket' = [ticket EXCEPT ![k].needsAgent = TRUE] /\ UNCHANGED lost
       \/ lost' = lost \cup {k} /\ UNCHANGED ticket
    /\ Step(t, "finish")
    /\ UNCHANGED <<history, botOn, marks, expiries, restarts, covered, onTime>>

\* The request fails once its message is stored, or Redis as a run is to start or
\* to end: nobody runs.
RunLost(t) ==
    /\ At(t, "schedule") \/ (Redis /\ At(t, "finish"))
    /\ lost' = lost \cup {task[t].ticket}
    /\ Done(t)
    /\ UNCHANGED <<desk, botOn, marks, expiries, restarts, covered, onTime>>

-----------------------------------------------------------------------------
(* Agents and admins; an agent who answers takes the ticket over *)

addAgentMessage(k) ==
    /\ Opened(k) /\ CanWrite(k)
    /\ addMessage(k, "agent")
    /\ ticket' = [ticket EXCEPT ![k].needsAgent = FALSE]
    /\ UNCHANGED <<botOn, marks, expiries, restarts, told, task>>

updateTicketAsAdmin(k, to) ==
    /\ Opened(k)
    /\ ticket' = [ticket EXCEPT ![k].status = to]
    /\ UNCHANGED <<history, botOn, marks, expiries, restarts, told, task>>

\* An admin may switch the bot off; that it is switched on again, over tickets it
\* ignored meanwhile, is left out, and a missing key is there all along.
setBotConfig ==
    /\ botOn' = FALSE
    /\ UNCHANGED <<desk, marks, expiries, restarts, told, task>>

SupportRestart ==
    /\ restarts < MaxRestarts
    /\ restarts' = restarts + 1
    /\ TasksLost
    /\ IF Redis THEN UNCHANGED marks ELSE running' = {} /\ rerun' = {}
    /\ UNCHANGED <<desk, botOn, expiries, told>>

OwnerRequest == \E t \in Tasks, k \in Tickets : createTicket(t, k) \/ addOwnerMessage(t, k)

\* An admin who reopens a closed ticket deals with it himself: leaving the
\* ticket closed is the last an admin does to its status.
AdminRequest == \E k \in Tickets :
    \/ addAgentMessage(k)
    \/ \E to \in TicketStatuses :
           ticket[k].status # "closed" /\ updateTicketAsAdmin(k, to)

BotStep(t) ==
    \/ OwnerWrites(t) \/ scheduleBotReply(t) \/ FinishRun(t)
    \/ getCurrentBotConfig(t) \/ ReadTicket(t) \/ ReadHistory(t)
    \/ AskModel(t) \/ RunTools(t) \/ Recheck(t)
    \/ MarkNeedsAgent(t) \/ addBotMessage(t)
    \/ ReplyFails(t) \/ replyAsBotSafely(t) \/ RunLost(t)

SupportNext ==
    \/ OwnerRequest \/ AdminRequest
    \/ \E t \in Tasks : BotStep(t)
    \/ \E k \in Tickets : LockExpires(k)
    \/ setBotConfig \/ SupportRestart
SupportSpec == SupportInit /\ NoTasks /\ [][SupportNext]_<<supportVars, task>>

\* A run of the bot goes on: its calls have timeouts.
SupportFairSpec ==
    SupportSpec /\ \A t \in Tasks : WF_<<supportVars, task>>(BotStep(t))

-----------------------------------------------------------------------------
(* Properties *)

SupportTypeOK ==
    /\ ticket \in [Tickets -> TicketRow \cup {NoTicket}]
    /\ \A k \in Tickets : \A i \in DOMAIN history[k] : history[k][i] \in Senders
    /\ running \subseteq Tickets /\ rerun \subseteq Tickets

\* "A person has taken over this ticket -- the bot stays out of it from then on"
\* (supportBot.service.ts): after an agent's message only a run that had already
\* looked for one may still write, so one message at most, or one more for a run
\* lock that expired under its run.
BotStaysOut(k) ==
    Cardinality({i \in From(k, "bot") : \E j \in From(k, "agent") : j < i}) <= 1 + expiries

\* maxRepliesPerTicket bounds what the bot writes on a ticket, with one more
\* message to say that a person takes over, whatever runs, reruns and restarts
\* come.  A run lock that expired lets one run too many go on for good, as a run
\* that ends frees the lock of another: one of two runs may then answer from a
\* history read before the last reply, and both may write at the limit.
RepliesCapped(k) == Cardinality(From(k, "bot")) <= MaxReplies + 1 + 2 * expiries

\* The bot keeps its place on every ticket: out of an agent's way and within its
\* limit, though both are read before the model is asked.
BotKeepsItsPlace ==
    /\ SupportTypeOK
    /\ \A k \in Tickets : BotStaysOut(k) /\ RepliesCapped(k)

\* The bot is to answer this ticket, up to its owner's message n, unless a person
\* has come or been asked for: no message of the bot was written with it read.
Unheard(k, n) ==
    /\ botOn /\ n > covered[k]
    /\ From(k, "agent") = {} /\ ticket[k].status # "closed" /\ ~ticket[k].needsAgent
\* What nobody tries again: a restart loses runs, as does a failing database.
Excused(k) == restarts > 0 \/ k \in lost

\* "The person must never be left waiting on a bot that failed": what an owner
\* wrote while no run was writing with less read is answered by a run that has
\* read it, or the ticket is in the queue for agents, whatever comes in the middle
\* of that run or of a later one and whatever the model does.
OwnerHeard == \A k \in Tickets :
    Unheard(k, onTime[k]) ~> ~Unheard(k, onTime[k]) \/ Excused(k)

=============================================================================
