-------------------------- MODULE PermissionDocks --------------------------
(***************************************************************************)
(* The permission docks of one browser and its automatic answers           *)
(* (packages/app: context/permission.tsx, permission-auto-respond.ts, the  *)
(* permission events of rpc-chat/bridge.ts, global-sync/bootstrap.ts and   *)
(* session-composer-state.ts) over the requests of Interactions.  A dock   *)
(* goes when the stream says that its request was decided; while automatic *)
(* acceptance is on, the docks are hidden and answered without the user.   *)
(***************************************************************************)
EXTENDS Interactions

CONSTANTS AutoCallers,  \* calls this browser makes by itself; users make the others
          Once,                      \* the decision of an automatic answer
          Saved,        \* what the browser's storage may hold of the two switches
          MaxToggles, MaxLoads       \* bounds: switches of the user, reloads of the list

Positions == {"unset", "on", "off"}

ASSUME DocksAssumption ==
  /\ AutoCallers \subseteq Callers
  /\ Saved \subseteq Positions \X Positions
  /\ Once \in Decisions /\ MaxToggles \in Nat /\ MaxLoads \in Nat

VARIABLES
  applied,     \* how many events of the stream this browser has applied
  docks,       \* session.data.permission of the session
  seeded,      \* FALSE while that entry is undefined
  own, shared, \* autoAccept: the session's key and its directory's
  known,       \* the session's lineage is cached
  toggles, version,   \* switches so far; enableVersion of the session's key
  lists,       \* the list call each switch-on makes: its version, phase, result
  checking,    \* <<request, list>>: listed, waiting for the lineage
  responded,   \* ids that are remembered as answered automatically
  forgotten,   \* ids that were dropped from it for their age or number
  outbox,      \* automatic answers that are about to be sent
  origin,      \* what this browser knows of its automatic calls
  load, loads  \* bootstrap's list call and how many there were

viewVars == <<applied, docks, seeded>>
switchVars == <<own, shared, toggles, version>>
respondedVars == <<responded, forgotten, outbox>>
autoVars == <<checking, respondedVars>>
loadVars == <<load, loads>>
clientVars == <<viewVars, switchVars, known, lists, autoVars, origin, loadVars>>
docksVars == <<interactionVars, clientVars>>

NoList == [phase |-> "none", of |-> "session", version |-> 0, found |-> {}]

PInit ==
  /\ IInit
  /\ applied = 0 /\ docks = {} /\ seeded = FALSE
  /\ \E saved \in Saved : own = saved[1] /\ shared = saved[2]
  /\ known \in BOOLEAN
  /\ toggles = 0 /\ version = 0 /\ lists = [n \in 1 .. MaxToggles |-> NoList]
  /\ checking = {} /\ responded = {} /\ forgotten = {} /\ outbox = {}
  /\ origin = [c \in Callers |-> "none"]
  /\ load = NoList /\ loads = 0

\* ListPending of the project's permissions; its two reads are one here, and a
\* request that is decided between them is left out as it would be.
Pending == {r \in projectIds \ questions : record[r] = "pending"}

-----------------------------------------------------------------------------
(* Automatic answers *)

\* autoRespondsPermission: the session's own switch, else its directory's.
Accepts == IF own # "unset" THEN own = "on" ELSE shared = "on"

IsPending(r) == ~seeded \/ r \in docks

AnswersAgain(rs) ==   \* mutant
  responded' = responded \cup rs /\ outbox' = outbox \cup rs /\ UNCHANGED forgotten
SendsUnrecorded(rs) ==   \* mutant: responded is not filled
  outbox' = outbox \cup (rs \ responded) /\ UNCHANGED <<responded, forgotten>>

\* respondOnce for each of rs.  Each call renews its id and drops others, those
\* of an hour ago and the oldest above a thousand: any of them, except that an
\* answer leaves the outbox long before, and that the first call finds all.
RespondOnce(rs) ==
  \E pruned \in SUBSET (responded \ outbox) :
    /\ ~(rs \subseteq pruned) \/ pruned = {}
    /\ responded' = (responded \ pruned) \cup rs
    /\ outbox' = outbox \cup (rs \ (responded \ pruned))
    /\ forgotten' = forgotten \cup pruned

\* respondOnce for a permission of another session, which shares the ids.
PruneResponded ==
  /\ \E pruned \in SUBSET (responded \ outbox) :
       /\ responded' = responded \ pruned
       /\ forgotten' = forgotten \cup pruned
  /\ UNCHANGED <<interactionVars, viewVars, switchVars, known, lists, checking, outbox, origin, loadVars>>

\* The effect runs again whenever docks, switches or the lineage change.
ReactsLate == RespondOnce(IF known /\ Accepts THEN docks' ELSE {})   \* mutant: tracks the docks only
React == RespondOnce(IF known' /\ Accepts' THEN docks' ELSE {})

\* current(): the list still belongs to the switch as it is.
Current(n) == CASE lists[n].of = "session" -> lists[n].version = version /\ Accepts
                [] lists[n].of = "directory" -> shared = "on"

StartList(kind) ==
  lists' = [lists EXCEPT ![toggles + 1] =
              [phase |-> "asked", of |-> kind, version |-> version', found |-> {}]]

Toggle == toggles < MaxToggles /\ toggles' = toggles + 1
               /\ UNCHANGED <<interactionVars, viewVars, known, checking, origin, loadVars>>

\* enable and disable of the session; only enabling asks for what is pending.
SwitchSession ==
  /\ Toggle
  /\ version' = version + 1
  /\ IF Accepts THEN own' = "off" /\ UNCHANGED lists
                ELSE own' = "on" /\ StartList("session")
  /\ UNCHANGED shared
  /\ React

SwitchDirectory ==
  /\ Toggle
  /\ UNCHANGED <<own, version>>
  /\ IF shared = "on" THEN shared' = "off" /\ UNCHANGED lists
                      ELSE shared' = "on" /\ StartList("directory")
  /\ React

\* The directory's configuration allows everything and nobody has set its
\* switch: it goes on without a list.
EnableConfigured ==
  /\ shared = "unset" /\ shared' = "on"
  /\ UNCHANGED <<interactionVars, viewVars, own, toggles, version, known, lists, checking, origin, loadVars>>
  /\ React

ListReply(n) ==
  /\ lists[n].phase = "asked"
  /\ lists' = [lists EXCEPT ![n].phase = "replied", ![n].found = Pending]
  /\ UNCHANGED <<interactionVars, viewVars, switchVars, known, autoVars, origin, loadVars>>

\* respondPending for what the list found; the directory's switch is only
\* consulted once the lineage is known.
ListApply(n) ==
  /\ lists[n].phase = "replied"
  /\ lists' = [lists EXCEPT ![n].phase = "applied"]
  /\ LET rs == IF Current(n) THEN {r \in lists[n].found : IsPending(r)} ELSE {} IN
       IF own # "unset" \/ known
         THEN RespondOnce(IF Accepts THEN rs ELSE {}) /\ UNCHANGED checking
         ELSE /\ checking' = checking \cup (rs \X {n})
              /\ UNCHANGED respondedVars
  /\ UNCHANGED <<interactionVars, viewVars, switchVars, known, origin, loadVars>>

\* lineage.resolve returns: everything is looked at again, as it is now.
AsListed(r, n) == IsPending(r)   \* mutant: the switches are not looked at again
StillWanted(r, n) == Accepts /\ Current(n) /\ IsPending(r)

CheckDone(r, n) ==
  /\ <<r, n>> \in checking
  /\ checking' = checking \ {<<r, n>>}
  /\ known' = TRUE
  /\ RespondOnce((IF StillWanted(r, n) THEN {r} ELSE {}) \cup
                 (IF Accepts THEN docks ELSE {}))
  /\ UNCHANGED <<interactionVars, viewVars, switchVars, lists, origin, loadVars>>

\* The session's info arrives by any other way.
LineageLoaded ==
  /\ ~known /\ known' = TRUE
  /\ UNCHANGED <<interactionVars, viewVars, switchVars, lists, checking, origin, loadVars>>
  /\ React

SendAuto(c, r) ==
  /\ c \in AutoCallers /\ r \in outbox
  /\ AnswerBegin(c, r, Once)
  /\ outbox' = outbox \ {r}
  /\ origin' = [origin EXCEPT ![c] = "sent"]
  /\ UNCHANGED <<viewVars, switchVars, known, lists, checking, responded, forgotten, loadVars>>

\* The answer of an automatic call arrives; a failure only forgets the id.
Forget(r) == responded' = responded \ {r}

AutoReturns(c) ==
  /\ c \in AutoCallers /\ origin[c] = "sent" /\ apc[c] \in Ended
  /\ \/ /\ apc[c] \in {"accepted", "repeated"}
        /\ origin' = [origin EXCEPT ![c] = "kept"]
        /\ UNCHANGED responded
     \/ /\ apc[c] \notin {"accepted", "repeated"} \/ "reply" \in Faults
        /\ origin' = [origin EXCEPT ![c] = "refused"]
        /\ Forget(request[c])
  /\ UNCHANGED <<interactionVars, viewVars, switchVars, known, lists, checking, forgotten, outbox, loadVars>>

-----------------------------------------------------------------------------
(* The docks *)

\* bridge.ts, permission_requested and permission_resolved; the events of
\* questions have docks of their own.
ApplyEvent ==
  /\ applied < Len(log)
  /\ applied' = applied + 1
  /\ LET event == log[applied + 1]  r == event[2] IN
       IF r \in questions THEN UNCHANGED <<docks, seeded>>
       ELSE /\ docks' = IF event[1] = "asked" THEN docks \cup {r} ELSE docks \ {r}
            /\ seeded' = TRUE
  /\ UNCHANGED <<interactionVars, switchVars, known, lists, checking, origin, loadVars>>
  /\ React

\* bootstrapDirectory asks for the project's permissions ...
LoadReply ==
  /\ load.phase = "none" /\ loads < MaxLoads
  /\ loads' = loads + 1
  /\ load' = [load EXCEPT !.phase = "replied", !.found = Pending]
  /\ UNCHANGED <<interactionVars, viewVars, switchVars, known, lists, autoVars, origin>>

\* ... resolves their sessions and replaces what the docks show.
LoadApply ==
  /\ load.phase = "replied"
  /\ load' = NoList
  /\ known' = (known \/ load.found # {})
  /\ docks' = IF known' THEN load.found ELSE docks
  /\ seeded' = (seeded \/ load.found # {})
  /\ UNCHANGED <<interactionVars, applied, switchVars, lists, checking, origin, loads>>
  /\ React

\* A user decides, at a dock of this browser or anywhere else.
UserAnswers(c, r, d) == /\ c \notin AutoCallers /\ record[r] # "absent"
                        /\ AnswerBegin(c, r, d) /\ UNCHANGED clientVars

-----------------------------------------------------------------------------
ClientStep ==
  \/ SwitchSession \/ SwitchDirectory \/ EnableConfigured \/ LineageLoaded \/ PruneResponded
  \/ \E n \in 1 .. MaxToggles : ListReply(n) \/ ListApply(n)
  \/ \E r \in Requests, n \in 1 .. MaxToggles : CheckDone(r, n)
  \/ \E c \in Callers : AutoReturns(c)
  \/ \E c \in Callers, r \in Requests : SendAuto(c, r)
  \/ ApplyEvent \/ LoadReply \/ LoadApply
  \/ \E c \in Callers, r \in Requests, d \in Decisions :
        UserAnswers(c, r, d)

PNext == \/ /\ \/ \E r \in Requests : AskStep(r)
               \/ \E c \in Callers : AnswerStep(c)
               \/ \E d \in Deleters : DeleteStep(d)
            /\ UNCHANGED clientVars
         \/ ClientStep

PSpec == PInit /\ [][PNext]_docksVars

(* Calls that were made come back and are handled, the stream delivers, and *)
(* the lineage the effect asked for arrives.  Nobody has to ask or answer.  *)
PFairSpec ==
  /\ PSpec
  /\ \A r \in Requests : /\ WF_docksVars((AskCreate(r) \/ AskPublish(r)) /\ UNCHANGED clientVars)
                         /\ \A c \in Callers : WF_docksVars(SendAuto(c, r))
  /\ \A c \in Callers : /\ WF_docksVars(AnswerStep(c) /\ UNCHANGED clientVars)
                        /\ WF_docksVars(AutoReturns(c))
  /\ WF_docksVars(ApplyEvent) /\ WF_docksVars(LoadApply) /\ WF_docksVars(LineageLoaded)
  /\ \A n \in 1 .. MaxToggles : WF_docksVars(ListReply(n)) /\ WF_docksVars(ListApply(n))

-----------------------------------------------------------------------------
(* Properties *)

\* Types of all state; every dock is one the stream or a list has named.
PTypeOK ==
  /\ ITypeOK
  /\ applied \in 0 .. Len(log) /\ docks \subseteq Requests /\ seeded \in BOOLEAN
  /\ own \in Positions /\ shared \in Positions /\ known \in BOOLEAN
  /\ checking \subseteq Requests \X (1 .. MaxToggles)
  /\ responded \cup forgotten \subseteq Requests /\ outbox \subseteq responded \cup forgotten
  /\ origin \in [Callers -> {"none", "sent", "kept", "refused"}]
  /\ docks # {} => seeded

\* However often the docks, the switches and the lists name a request, one
\* automatic answer at most is under way for it, and none follows one that
\* succeeded: only a refused one is repeated, and one whose id was pruned while
\* its dock stayed.
AnsweredOnce ==
  LET Live(c) == /\ c \in AutoCallers /\ origin[c] \in {"sent", "kept"}
                 /\ request[c] \notin forgotten IN
    /\ \A c, e \in Callers : Live(c) /\ Live(e) /\ request[c] = request[e] => c = e
    /\ \A c \in Callers : Live(c) => request[c] \notin outbox

\* Automatic acceptance hides the docks, so it has to answer them: a request
\* that is hidden from the user was answered or is about to be, whichever of the
\* switches, the stream, the lists and the lineage came last and whatever was
\* pruned.  The call may have failed, and then nothing repeats it.
HiddenAnswered ==
  \A r \in docks : Accepts /\ known =>
    \/ r \in outbox
    \/ \E c \in AutoCallers : origin[c] # "none" /\ request[c] = r

\* No answer is given in the user's name that the switches do not allow at the
\* moment it is given, whatever was pending when they were set.
Consented ==
  [][\A r \in outbox' \ outbox : Accepts' /\ (~seeded' \/ r \in docks')]_docksVars

\* A decided request leaves the docks.
DockSettles ==
  \A r \in Requests : Decided(r) /\ r \in docks ~> r \notin docks
=============================================================================
