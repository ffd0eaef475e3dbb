---------------------------- MODULE AgentJobsProofs ----------------------------
(***************************************************************************)
(* What the local-system agents promise, for any number of agents, files,   *)
(* lines and tool calls; and that AgentJobs, in which every job runs beside *)
(* the idle others, keeps the promises of each.                             *)
(***************************************************************************)
EXTENDS AgentJobs, ContentDraftProofs, EvidenceProofs

(***************************************************************************)
(* The local-system agents.                                                 *)
(*                                                                          *)
(* The inductive invariant behind OneAttached: a process that holds the     *)
(* pipes is that of its agent's present call, file included, so that two of *)
(* one agent in one state are the same.                                     *)
(***************************************************************************)
Attached ==
  \A p \in procs : p.state # "detached" =>
    /\ p = Proc(p.agent, p.state)
    /\ tool[p.agent].pc = IF p.state = "running" THEN "shell" ELSE "killed"

LocalInv == LocalTypeOK /\ Attached

-----------------------------------------------------------------------------
(* Records of tool calls.                                                   *)

\* A fresh call of a request is a call.
LEMMA FreshIsUse ==
  ASSUME NEW pc \in {"idle", "run"}, NEW r \in Requests
  PROVE  Fresh(pc, r) \in Use
BY LocalAssumption DEF Fresh, Use, MaxRetries

\* So is the idle one.
LEMMA NoUseIsUse == NoUse \in Use /\ NoUse.pc = "idle"
BY FreshIsUse, LocalAssumption DEF NoUse, Fresh

\* A return leaves a call idle, and the others as they are.
LEMMA ReturnsTool ==
  ASSUME tool \in [Agents -> Use], NEW a \in Agents, Returns(a)
  PROVE  /\ tool' \in [Agents -> Use]
         /\ tool'[a].pc = "idle"
         /\ \A b \in Agents \ {a} : tool'[b] = tool[b]
BY NoUseIsUse DEF Returns

\* A ToolError leaves a call at its next attempt or idle, and no other changed.
LEMMA RaisesTool ==
  ASSUME tool \in [Agents -> Use], NEW a \in Agents, RaisesToolError(a)
  PROVE  /\ tool' \in [Agents -> Use]
         /\ tool'[a].pc \in {"run", "idle"}
         /\ \A b \in Agents \ {a} : tool'[b] = tool[b]
<1>1. CASE tool[a].attempt < MaxRetries
  <2>1. tool' = [tool EXCEPT ![a].pc = "run", ![a].attempt = @ + 1]
    BY <1>1 DEF RaisesToolError
  <2>2. tool[a] \in Use /\ tool[a].attempt + 1 \in 1..MaxRetries
    BY <1>1 DEF Use, MaxRetries
  <2> QED BY <2>1, <2>2 DEF Use
<1>2. CASE ~(tool[a].attempt < MaxRetries)
  BY <1>2, ReturnsTool DEF RaisesToolError
<1> QED BY <1>1, <1>2

\* The pc of a call changes and nothing else of it does.
LEMMA PcTool ==
  ASSUME tool \in [Agents -> Use], NEW a \in Agents,
         NEW pc \in {"idle", "run", "shell", "killed"},
         tool' = [tool EXCEPT ![a].pc = pc]
  PROVE  /\ tool' \in [Agents -> Use]
         /\ tool'[a].pc = pc /\ tool'[a].file = tool[a].file
         /\ \A b \in Agents \ {a} : tool'[b] = tool[b]
<1>1. tool[a] \in Use
  OBVIOUS
<1> QED BY <1>1 DEF Use

-----------------------------------------------------------------------------
(* The invariant at the start and over the steps.                           *)

LEMMA LocalInitInv == LocalInit(Contents) => LocalInv
<1> SUFFICES ASSUME LocalInit(Contents) PROVE LocalInv
  OBVIOUS
<1>1. LocalTypeOK
  BY LocalAssumption, NoUseIsUse DEF LocalInit, LocalTypeOK
<1>2. Attached
  BY DEF LocalInit, Attached
<1> QED BY <1>1, <1>2 DEF LocalInv

\* The processes of a call that neither was nor is at its shell are detached,
\* so that its change disturbs none of the others.
LEMMA AttachedKept ==
  ASSUME LocalInv, NEW a \in Agents, procs' = procs, tool' \in [Agents -> Use],
         tool[a].pc \notin {"shell", "killed"} \/ tool'[a] = tool[a],
         \A b \in Agents \ {a} : tool'[b] = tool[b]
  PROVE  Attached'
<1> SUFFICES ASSUME NEW p \in procs, p.state # "detached"
             PROVE  /\ p = Proc(p.agent, p.state)'
                    /\ tool'[p.agent].pc = IF p.state = "running" THEN "shell" ELSE "killed"
  BY DEF Attached, Proc
<1>1. p.agent \in Agents
  BY DEF LocalInv, LocalTypeOK, Process
<1>2. p = Proc(p.agent, p.state) /\ tool[p.agent].pc \in {"shell", "killed"}
  BY DEF LocalInv, Attached
<1>3. tool'[p.agent] = tool[p.agent]
  BY <1>1, <1>2
<1> QED BY <1>2, <1>3 DEF LocalInv, Attached, Proc

LEMMA LocalStepInv == LocalInv /\ [LocalNext]_localVars => LocalInv'
<1> SUFFICES ASSUME LocalInv, [LocalNext]_localVars PROVE LocalInv'
  OBVIOUS
<1> USE DEF LocalInv, LocalTypeOK
<1>1. ASSUME NEW a \in Agents, NEW request \in Requests, UseTool(a, request) PROVE LocalInv'
  <2>1. tool' \in [Agents -> Use] /\ \A b \in Agents \ {a} : tool'[b] = tool[b]
    BY <1>1, FreshIsUse DEF UseTool
  <2>2. uses' \in 0..MaxUses
    BY <1>1, LocalAssumption DEF UseTool
  <2> QED BY <1>1, <2>1, <2>2, AttachedKept DEF UseTool
<1>2. ASSUME NEW a \in Agents, GuardRefuses(a) PROVE LocalInv'
  BY <1>2, RaisesTool, AttachedKept DEF GuardRefuses
<1>3. ASSUME NEW a \in Agents, FileRead(a) PROVE LocalInv'
  <2>1. tool[a].pc = "run" /\ tool[a].file \in Files
    BY <1>3 DEF FileRead, Running, Use
  <2>2. tool' \in [Agents -> Use] /\ \A b \in Agents \ {a} : tool'[b] = tool[b]
    BY <1>3, RaisesTool, ReturnsTool DEF FileRead
  <2>3. seen' \in [Agents -> [Files -> {Unread} \cup SUBSET Lines]]
    <3>1. CASE Here(a) = Absent
      BY <1>3, <3>1 DEF FileRead
    <3>2. CASE Here(a) # Absent
      <4>1. Here(a) \in SUBSET Lines
        BY <2>1, <3>2 DEF Here
      <4>2. seen' = [seen EXCEPT ![a][tool[a].file] = Here(a)]
        BY <1>3, <3>2 DEF FileRead
      <4> QED BY <2>1, <4>1, <4>2
    <3> QED BY <3>1, <3>2
  <2>4. disk' = disk /\ procs' = procs /\ uses' = uses
    BY <1>3 DEF FileRead
  <2> QED BY <2>1, <2>2, <2>3, <2>4, AttachedKept
<1>4. ASSUME NEW a \in Agents, FileWrite(a) PROVE LocalInv'
  <2>1. tool[a].pc = "run" /\ tool[a].file \in Files /\ tool[a].line \in Lines
    BY <1>4 DEF FileWrite, Running, Use
  <2>2. tool' \in [Agents -> Use] /\ \A b \in Agents \ {a} : tool'[b] = tool[b]
    BY <1>4, ReturnsTool DEF FileWrite
  <2>3. disk' \in [Files -> {Absent} \cup SUBSET Lines]
    BY <1>4, <2>1 DEF FileWrite
  <2> QED BY <1>4, <2>1, <2>2, <2>3, AttachedKept DEF FileWrite
<1>5. ASSUME NEW a \in Agents, FileEdit(a) PROVE LocalInv'
  <2>1. tool[a].pc = "run" /\ tool[a].file \in Files /\ tool[a].line \in Lines
    BY <1>5 DEF FileEdit, Running, Use
  <2>2. tool' \in [Agents -> Use] /\ \A b \in Agents \ {a} : tool'[b] = tool[b]
    BY <1>5, RaisesTool, ReturnsTool DEF FileEdit
  <2>3. disk' \in [Files -> {Absent} \cup SUBSET Lines]
    BY <1>5, <2>1 DEF FileEdit, Here
  <2> QED BY <1>5, <2>1, <2>2, <2>3, AttachedKept DEF FileEdit
<1>6. ASSUME NEW a \in Agents, WriteBreaksOff(a) PROVE LocalInv'
  <2>1. tool[a].pc = "run" /\ tool[a].file \in Files
    BY <1>6 DEF WriteBreaksOff, Running, Use
  <2>2. tool' \in [Agents -> Use] /\ \A b \in Agents \ {a} : tool'[b] = tool[b]
    BY <1>6, ReturnsTool DEF WriteBreaksOff
  <2>3. disk' \in [Files -> {Absent} \cup SUBSET Lines]
    BY <1>6, <2>1 DEF WriteBreaksOff
  <2> QED BY <1>6, <2>1, <2>2, <2>3, AttachedKept DEF WriteBreaksOff
<1>7. ASSUME NEW a \in Agents, FolderCreate(a) \/ FolderList(a) PROVE LocalInv'
  <2>1. tool' \in [Agents -> Use] /\ \A b \in Agents \ {a} : tool'[b] = tool[b]
    BY <1>7, RaisesTool, ReturnsTool DEF FolderCreate, FolderList
  <2> QED BY <1>7, <2>1, AttachedKept DEF FolderCreate, FolderList, Running
<1>8. ASSUME NEW a \in Agents, Spawn(a) PROVE LocalInv'
  <2>1. /\ tool' \in [Agents -> Use]
        /\ tool'[a].pc = "shell" /\ tool'[a].file = tool[a].file
        /\ \A b \in Agents \ {a} : tool'[b] = tool[b]
    BY <1>8, PcTool DEF Spawn
  <2>2. procs' = procs \cup {Proc(a, "running")} /\ tool[a].pc = "run"
    BY <1>8 DEF Spawn, Running
  <2>3. Proc(a, "running") \in Process
    BY DEF Proc, Process, Use
  <2>4. Attached'
    <3> SUFFICES ASSUME NEW p \in procs', p.state # "detached"
                 PROVE  /\ p = Proc(p.agent, p.state)'
                        /\ tool'[p.agent].pc = IF p.state = "running" THEN "shell" ELSE "killed"
      BY DEF Attached, Proc
    <3>1. CASE p = Proc(a, "running")
      BY <2>1, <3>1 DEF Proc
    <3>2. CASE p \in procs
      <4>1. p.agent \in Agents \ {a}
        BY <2>2, <3>2 DEF Attached, Process
      <4> QED BY <2>1, <3>2, <4>1 DEF Attached, Proc
    <3> QED BY <2>2, <3>1, <3>2
  <2> QED BY <1>8, <2>1, <2>2, <2>3, <2>4 DEF Spawn
<1>9. ASSUME NEW a \in Agents, NEW state \in {"gone", "detached"}, ShellExits(a, state)
      PROVE  LocalInv'
  <2>1. tool' \in [Agents -> Use] /\ \A b \in Agents \ {a} : tool'[b] = tool[b]
    BY <1>9, ReturnsTool DEF ShellExits
  <2>2. /\ tool[a].pc = "shell"
        /\ procs' = (procs \ {Proc(a, "running")}) \cup
                    (IF state = "gone" THEN {} ELSE {Proc(a, "detached")})
    BY <1>9 DEF ShellExits, Leaves
  <2>3. Proc(a, "detached") \in Process /\ Proc(a, "detached").state = "detached"
    BY DEF Proc, Process, Use
  <2>4. Attached'
    <3> SUFFICES ASSUME NEW p \in procs', p.state # "detached"
                 PROVE  /\ p = Proc(p.agent, p.state)'
                        /\ tool'[p.agent].pc = IF p.state = "running" THEN "shell" ELSE "killed"
      BY DEF Attached, Proc
    <3>1. p \in procs /\ p # Proc(a, "running")
      BY <2>2, <2>3
    <3>2. p.agent \in Agents \ {a}
      BY <2>2, <3>1 DEF Attached, Process
    <3> QED BY <2>1, <3>1, <3>2 DEF Attached, Proc
  <2> QED BY <1>9, <2>1, <2>2, <2>3, <2>4 DEF ShellExits
<1>10. ASSUME NEW a \in Agents, NEW state \in {"gone", "detached", "orphan"}, ShellTimesOut(a, state)
       PROVE  LocalInv'
  <2>1. /\ tool' \in [Agents -> Use]
        /\ tool'[a].pc = "killed" /\ tool'[a].file = tool[a].file
        /\ \A b \in Agents \ {a} : tool'[b] = tool[b]
    BY <1>10, PcTool DEF ShellTimesOut
  <2>2. /\ tool[a].pc = "shell"
        /\ procs' = (procs \ {Proc(a, "running")}) \cup
                    (IF state = "gone" THEN {} ELSE {Proc(a, state)})
    BY <1>10 DEF ShellTimesOut, Leaves
  <2>3. state # "gone" => Proc(a, state) \in Process
    BY DEF Proc, Process, Use
  <2>4. Attached'
    <3> SUFFICES ASSUME NEW p \in procs', p.state # "detached"
                 PROVE  /\ p = Proc(p.agent, p.state)'
                        /\ tool'[p.agent].pc = IF p.state = "running" THEN "shell" ELSE "killed"
      BY DEF Attached, Proc
    <3>1. CASE p = Proc(a, "orphan")
      BY <2>1, <3>1 DEF Proc
    <3>2. CASE p \in procs /\ p # Proc(a, "running")
      <4>1. p.agent \in Agents \ {a}
        BY <2>2, <3>2 DEF Attached, Process
      <4> QED BY <2>1, <3>2, <4>1 DEF Attached, Proc
    <3>3. Proc(a, "detached").state = "detached"
      BY DEF Proc
    <3> QED BY <2>2, <3>1, <3>2, <3>3
  <2> QED BY <1>10, <2>1, <2>2, <2>3, <2>4 DEF ShellTimesOut
<1>11. ASSUME NEW a \in Agents, PipesClosed(a) PROVE LocalInv'
  <2>1. tool' \in [Agents -> Use] /\ \A b \in Agents \ {a} : tool'[b] = tool[b]
    BY <1>11, RaisesTool DEF PipesClosed
  <2>2. Attached'
    <3> SUFFICES ASSUME NEW p \in procs, p.state # "detached"
                 PROVE  /\ p = Proc(p.agent, p.state)'
                        /\ tool'[p.agent].pc = IF p.state = "running" THEN "shell" ELSE "killed"
      BY <1>11 DEF PipesClosed, Attached, Proc
    <3>1. p.agent \in Agents \ {a}
      BY <1>11 DEF PipesClosed, Attached, Process
    <3> QED BY <2>1, <3>1 DEF Attached, Proc
  <2> QED BY <1>11, <2>1, <2>2 DEF PipesClosed
<1>12. ASSUME NEW p \in procs, NEW content \in Outputs, Act(p, content) PROVE LocalInv'
  <2>1. p.file \in Files /\ content \in {Absent} \cup SUBSET Lines
    BY LocalAssumption DEF Process
  <2>2. disk' \in [Files -> {Absent} \cup SUBSET Lines]
    BY <1>12, <2>1 DEF Act
  <2> QED BY <1>12, <2>2 DEF Act, Attached, Proc
<1>13. ASSUME NEW p \in procs, ProcessEnds(p) PROVE LocalInv'
  BY <1>13 DEF ProcessEnds, Attached, Proc
<1>14. CASE UNCHANGED localVars
  BY <1>14 DEF localVars, Attached, Proc
<1>15. ASSUME NEW a \in Agents, ToolStep(a) PROVE LocalInv'
  <2>1. ASSUME NEW state \in {"gone", "detached", "orphan"}, ShellExits(a, state)
        PROVE  state \in {"gone", "detached"}
    BY <2>1 DEF ShellExits
  <2> QED BY <1>2, <1>3, <1>4, <1>5, <1>6, <1>7, <1>8, <1>9, <1>10, <1>11, <1>15, <2>1 DEF ToolStep
<1> QED BY <1>1, <1>12, <1>13, <1>14, <1>15 DEF LocalNext

-----------------------------------------------------------------------------
(* The theorems.                                                            *)

(***************************************************************************)
(* The state of files, tool calls and processes keeps its types.            *)
(***************************************************************************)
THEOREM LocalTypeCorrect == LocalSpec => []LocalTypeOK
<1>1. LocalInv => LocalTypeOK
  BY DEF LocalInv
<1> QED BY <1>1, LocalInitInv, LocalStepInv, PTL DEF LocalSpec

(***************************************************************************)
(* However often commands are retried, an agent has at most one process     *)
(* that holds its pipes, the one its tool call waits for.                   *)
(***************************************************************************)
THEOREM LocalOneAttached == LocalSpec => []OneAttached
<1>1. LocalInv => OneAttached
  <2> SUFFICES ASSUME LocalInv, NEW p \in procs, p.state # "detached",
                      NEW q \in procs, q.agent = p.agent, q.state # "detached"
               PROVE  /\ tool[p.agent].pc = IF p.state = "running" THEN "shell" ELSE "killed"
                      /\ q = p
    BY DEF OneAttached
  <2>1. p.state \in {"running", "orphan"} /\ q.state \in {"running", "orphan"}
    BY DEF LocalInv, LocalTypeOK, Process
  <2> QED BY <2>1 DEF LocalInv, Attached
<1> QED BY <1>1, LocalInitInv, LocalStepInv, PTL DEF LocalSpec

(***************************************************************************)
(* The action behind LostOnlyByStaleWriter.                                 *)
(***************************************************************************)
LossExplained ==
  \A f \in Files : disk[f] # Absent =>
    \A l \in disk[f] : disk'[f] = Absent \/ l \notin disk'[f] =>
      \/ \E p \in procs : p.file = f
      \/ \E a \in Agents :
           /\ tool[a].pc = "run" /\ tool[a].file = f
           /\ \/ tool[a].name = "file_edit" /\ tool[a].old = l
              \/ tool[a].name = "file_write" /\ (seen[a][f] = Unread \/ l \notin seen[a][f])
              \/ disk'[f] = {}

\* A step loses a line only with the excuses of the property.
LEMMA LossStep ==
  ASSUME LocalInv, [LocalNext]_localVars
  PROVE  LossExplained
<1> SUFFICES ASSUME NEW f \in Files, disk[f] # Absent, NEW l \in disk[f],
                    disk'[f] = Absent \/ l \notin disk'[f],
                    \A p \in procs : p.file # f
             PROVE  \E a \in Agents :
                      /\ tool[a].pc = "run" /\ tool[a].file = f
                      /\ \/ tool[a].name = "file_edit" /\ tool[a].old = l
                         \/ /\ tool[a].name = "file_write"
                            /\ seen[a][f] = Unread \/ l \notin seen[a][f]
                         \/ disk'[f] = {}
  BY DEF LossExplained
<1> USE DEF LocalInv, LocalTypeOK
<1>1. disk[f] \in SUBSET Lines /\ disk' # disk
  OBVIOUS
<1>2. ASSUME NEW a \in Agents, FileWrite(a)
      PROVE  tool[a].file = f /\ (seen[a][f] = Unread \/ l \notin seen[a][f])
  <2>1. tool[a].file \in Files /\ tool[a].line \in Lines
    BY DEF Use
  <2>2. tool[a].file = f
    BY <1>1, <1>2, <2>1 DEF FileWrite
  <2>3. disk'[f] = (IF seen[a][f] = Unread THEN {} ELSE seen[a][f]) \cup {tool[a].line}
    BY <1>2, <2>1, <2>2 DEF FileWrite
  <2>4. CASE seen[a][f] # Unread
    <3>1. disk'[f] \in SUBSET Lines
      BY <2>1, <2>3, <2>4
    <3> QED BY <2>2, <2>3, <2>4, <3>1, LocalAssumption
  <2> QED BY <2>2, <2>4
<1>3. ASSUME NEW a \in Agents, FileEdit(a)
      PROVE  tool[a].file = f /\ tool[a].old = l
  <2>1. tool[a].file \in Files /\ tool[a].line \in Lines
    BY DEF Use
  <2>2. /\ tool[a].file = f
        /\ disk'[f] = (disk[f] \ {tool[a].old}) \cup {tool[a].line}
    BY <1>1, <1>3, <2>1 DEF FileEdit, Here
  <2>3. disk'[f] # Absent
    <3>1. disk'[f] \in SUBSET Lines
      BY <1>1, <2>1, <2>2
    <3> QED BY <3>1, LocalAssumption
  <2> QED BY <2>2, <2>3
<1>4. ASSUME NEW a \in Agents, WriteBreaksOff(a)
      PROVE  tool[a].file = f /\ tool[a].pc = "run" /\ disk'[f] = {}
  <2>1. tool[a].file \in Files
    BY DEF Use
  <2> QED BY <1>1, <1>4, <2>1 DEF WriteBreaksOff, Running
<1>5. ASSUME NEW p \in procs, NEW content \in Outputs, Act(p, content) PROVE FALSE
  BY <1>1, <1>5 DEF Act
<1>6. \/ \E a \in Agents : FileWrite(a) \/ FileEdit(a) \/ WriteBreaksOff(a)
      \/ \E p \in procs, content \in Outputs : Act(p, content)
  BY <1>1 DEF LocalNext, ToolStep, UseTool, GuardRefuses, FileRead, FolderCreate, FolderList,
              Spawn, ShellExits, ShellTimesOut, PipesClosed, ProcessEnds, localVars
<1> QED BY <1>2, <1>3, <1>4, <1>5, <1>6 DEF FileWrite, FileEdit, Running

(***************************************************************************)
(* However many agents edit and write, however their calls are retried and  *)
(* whatever their commands do: no edit undoes what others made of the file. *)
(***************************************************************************)
THEOREM LocalLostOnlyByStaleWriter == LocalSpec => LostOnlyByStaleWriter
<1>1. LocalInv /\ [LocalNext]_localVars => [LossExplained]_localVars
  BY LossStep
<1> QED BY <1>1, LocalInitInv, LocalStepInv, PTL DEF LocalSpec, LostOnlyByStaleWriter, LossExplained

-----------------------------------------------------------------------------
(***************************************************************************)
(* Every tool call ends: three steps an attempt, which starts, is killed    *)
(* and returns, and MaxRetries attempts.                                    *)
(***************************************************************************)
UseLeft(u) ==
  (MaxRetries - u.attempt) * 3 +
  CASE u.pc = "run" -> 3 [] u.pc = "shell" -> 2 [] u.pc = "killed" -> 1 [] OTHER -> 0

\* A step of the event loop ends the call or leaves less of it.
UseShrinks(u, v) == v.pc = "idle" \/ UseLeft(v) < UseLeft(u)

LEMMA UseLeftTyped == ASSUME NEW u \in Use PROVE UseLeft(u) \in 0..9
<1>1. u.attempt \in 1..3 /\ u.pc \in {"idle", "run", "shell", "killed"}
  BY DEF Use, MaxRetries
<1>2. CASE u.pc = "run"
  BY <1>1, <1>2 DEF UseLeft, MaxRetries
<1>3. CASE u.pc = "shell"
  BY <1>1, <1>3 DEF UseLeft, MaxRetries
<1>4. CASE u.pc = "killed"
  BY <1>1, <1>4 DEF UseLeft, MaxRetries
<1>5. CASE u.pc = "idle"
  BY <1>1, <1>5 DEF UseLeft, MaxRetries
<1> QED BY <1>1, <1>2, <1>3, <1>4, <1>5

\* Another attempt is one attempt less.
LEMMA RaiseShrinks ==
  ASSUME tool \in [Agents -> Use], NEW a \in Agents, tool[a].pc \in {"run", "killed"},
         RaisesToolError(a)
  PROVE  UseShrinks(tool[a], tool'[a])
<1>1. tool[a] \in Use /\ tool[a].attempt \in 1..3
  BY DEF Use, MaxRetries
<1>2. CASE tool[a].attempt < MaxRetries
  <2>1. tool' = [tool EXCEPT ![a].pc = "run", ![a].attempt = @ + 1]
    BY <1>2 DEF RaisesToolError
  <2>2. tool'[a].pc = "run" /\ tool'[a].attempt = tool[a].attempt + 1
    BY <1>1, <2>1 DEF Use
  <2>3. UseLeft(tool'[a]) = (3 - (tool[a].attempt + 1)) * 3 + 3
    BY <2>2 DEF UseLeft, MaxRetries
  <2>4. UseLeft(tool[a]) >= (3 - tool[a].attempt) * 3 + 1
    BY <1>1 DEF UseLeft, MaxRetries
  <2>5. UseLeft(tool[a]) \in Int
    BY <1>1, UseLeftTyped
  <2> QED BY <1>1, <2>3, <2>4, <2>5 DEF UseShrinks
<1>3. CASE ~(tool[a].attempt < MaxRetries)
  BY <1>3, ReturnsTool DEF RaisesToolError, UseShrinks
<1> QED BY <1>2, <1>3

\* A later place in the same attempt.
LEMMA PcShrinks ==
  ASSUME tool \in [Agents -> Use], NEW a \in Agents,
         \/ tool[a].pc = "run" /\ tool' = [tool EXCEPT ![a].pc = "shell"]
         \/ tool[a].pc = "shell" /\ tool' = [tool EXCEPT ![a].pc = "killed"]
  PROVE  UseShrinks(tool[a], tool'[a])
<1>1. tool[a] \in Use /\ tool[a].attempt \in 1..3
  BY DEF Use, MaxRetries
<1>2. CASE tool[a].pc = "run" /\ tool' = [tool EXCEPT ![a].pc = "shell"]
  <2>1. tool'[a].pc = "shell" /\ tool'[a].attempt = tool[a].attempt
    BY <1>1, <1>2 DEF Use
  <2>2. UseLeft(tool'[a]) = (3 - tool[a].attempt) * 3 + 2
    BY <2>1 DEF UseLeft, MaxRetries
  <2>3. UseLeft(tool[a]) = (3 - tool[a].attempt) * 3 + 3
    BY <1>2 DEF UseLeft, MaxRetries
  <2> QED BY <1>1, <2>2, <2>3 DEF UseShrinks
<1>3. CASE tool[a].pc = "shell" /\ tool' = [tool EXCEPT ![a].pc = "killed"]
  <2>1. tool'[a].pc = "killed" /\ tool'[a].attempt = tool[a].attempt
    BY <1>1, <1>3 DEF Use
  <2>2. UseLeft(tool'[a]) = (3 - tool[a].attempt) * 3 + 1
    BY <2>1 DEF UseLeft, MaxRetries
  <2>3. UseLeft(tool[a]) = (3 - tool[a].attempt) * 3 + 2
    BY <1>3 DEF UseLeft, MaxRetries
  <2> QED BY <1>1, <2>2, <2>3 DEF UseShrinks
<1> QED BY <1>2, <1>3

\* A step of the event loop for a call.
LEMMA ToolStepShrinks ==
  ASSUME LocalInv, NEW a \in Agents, ToolStep(a)
  PROVE  /\ UseShrinks(tool[a], tool'[a])
         /\ \A b \in Agents \ {a} : tool'[b] = tool[b]
<1>0. tool \in [Agents -> Use]
  BY DEF LocalInv, LocalTypeOK
<1>1. CASE Returns(a)
  BY <1>0, <1>1, ReturnsTool DEF UseShrinks
<1>2. CASE RaisesToolError(a) /\ tool[a].pc \in {"run", "killed"}
  BY <1>0, <1>2, RaiseShrinks, RaisesTool
<1>3. CASE \/ tool[a].pc = "run" /\ tool' = [tool EXCEPT ![a].pc = "shell"]
           \/ tool[a].pc = "shell" /\ tool' = [tool EXCEPT ![a].pc = "killed"]
  BY <1>0, <1>3, PcShrinks, PcTool
<1>4. \/ Returns(a)
      \/ RaisesToolError(a) /\ tool[a].pc \in {"run", "killed"}
      \/ tool[a].pc = "run" /\ tool' = [tool EXCEPT ![a].pc = "shell"]
      \/ tool[a].pc = "shell" /\ tool' = [tool EXCEPT ![a].pc = "killed"]
  BY DEF ToolStep, GuardRefuses, FileRead, FileWrite, FileEdit, WriteBreaksOff, FolderCreate,
         FolderList, Spawn, PipesClosed, ShellTimesOut, ShellExits, Running
<1> QED BY <1>1, <1>2, <1>3, <1>4

(***************************************************************************)
(* The safety half of the liveness of a tool call: at most nine steps, each *)
(* leaves fewer, and no other agent's call or process gives it more.        *)
(***************************************************************************)
THEOREM UsesAreFinite ==
  LocalSpec =>
    /\ [](\A a \in Agents : UseLeft(tool[a]) \in 0..9)
    /\ [][\A a \in Agents : \/ tool[a].pc = "idle"
                            \/ tool'[a] = tool[a]
                            \/ UseShrinks(tool[a], tool'[a])]_localVars
<1>1. LocalInv => \A a \in Agents : UseLeft(tool[a]) \in 0..9
  BY UseLeftTyped DEF LocalInv, LocalTypeOK
<1>2. LocalInv /\ [LocalNext]_localVars =>
        [\A a \in Agents : \/ tool[a].pc = "idle"
                           \/ tool'[a] = tool[a]
                           \/ UseShrinks(tool[a], tool'[a])]_localVars
  <2> SUFFICES ASSUME LocalInv, LocalNext, NEW a \in Agents
               PROVE  tool[a].pc = "idle" \/ tool'[a] = tool[a] \/ UseShrinks(tool[a], tool'[a])
    OBVIOUS
  <2>0. tool \in [Agents -> Use]
    BY DEF LocalInv, LocalTypeOK
  <2>1. ASSUME NEW b \in Agents, ToolStep(b)
        PROVE  tool'[a] = tool[a] \/ UseShrinks(tool[a], tool'[a])
    BY <2>1, ToolStepShrinks
  <2>2. ASSUME NEW b \in Agents, NEW request \in Requests, UseTool(b, request)
        PROVE  tool[a].pc = "idle" \/ tool'[a] = tool[a]
    BY <2>0, <2>2 DEF UseTool
  <2>3. ASSUME NEW p \in procs, ProcessEnds(p) \/ \E content \in Outputs : Act(p, content)
        PROVE  tool' = tool
    BY <2>3 DEF Act, ProcessEnds
  <2> QED BY <2>1, <2>2, <2>3 DEF LocalNext
<1> QED BY <1>1, <1>2, LocalInitInv, LocalStepInv, PTL DEF LocalSpec

-----------------------------------------------------------------------------
(* The jobs together.                                                       *)

(***************************************************************************)
(* AgentJobs is each of its parts: the texts and disks it starts from are   *)
(* theirs, and its steps are steps of one and stutters of the others.       *)
(***************************************************************************)
THEOREM JobsAreTheirParts ==
  Spec => ResearchSpec /\ FactSpec /\ DraftSpec /\ LocalSpec
<1>1. Init => ResearchInit /\ FactInit /\ DraftInit(TextCases) /\ LocalInit(Contents)
  BY DEF Init, Only, DraftInit, LocalInit
<1>2. [Next]_vars => /\ [ResearchNext]_researchVars /\ [FactNext]_factVars
                     /\ [DraftNext]_draftVars /\ [LocalNext]_localVars
  BY DEF Next, vars, DoResearch, DoFactCheck, DoDraft, DoLocal
<1> QED BY <1>1, <1>2, PTL DEF Spec, ResearchSpec, FactSpec, DraftSpec, LocalSpec

(***************************************************************************)
(* Every job keeps its types while the others stand still.                  *)
(***************************************************************************)
THEOREM JobsTypeCorrect == Spec => []TypeOK
<1>1. Init => job \in Jobs
  BY DEF Init
<1>2. job \in Jobs /\ [Next]_vars => (job \in Jobs)'
  BY DEF Next, vars, DoResearch, DoFactCheck, DoDraft, DoLocal
<1>3. Spec => [](job \in Jobs)
  BY <1>1, <1>2, PTL DEF Spec
<1> QED BY <1>3, JobsAreTheirParts, ResearchTypeCorrect, FactTypeCorrect, DraftTypeCorrect,
           LocalTypeCorrect, PTL DEF TypeOK

(***************************************************************************)
(* What is proved of the parts holds of the jobs.                           *)
(***************************************************************************)
THEOREM JobsKeepPromises ==
  Spec => /\ [](DisputesExact /\ BestSourcesKept)
          /\ [](ReportOfOneAttempt /\ VerdictFollows)
          /\ [](PostsCoverText /\ PostsFilled /\ RefusedForCause)
          /\ []OneAttached
          /\ LostOnlyByStaleWriter
BY JobsAreTheirParts, ResearchDisputesExact, ResearchBestSourcesKept, FactReportOfOneAttempt,
   FactVerdictFollows, DraftPostsCoverText, DraftPostsFilled, DraftRefusedForCause,
   LocalOneAttached, LocalLostOnlyByStaleWriter, PTL

(***************************************************************************)
(* No job can loop: what the theorems say of each is true of the job.  What *)
(* is left of JobsEnd is that the event loop does take the steps.           *)
(***************************************************************************)
THEOREM JobsAreFinite ==
  Spec => /\ []LoopsInside
          /\ [][NextStage \/ NextSource \/ OpenPage \/ NextSentence \/ NextPair]_researchVars
          /\ [](CheckLeft \in 0..(3 * PerAttempt)) /\ [][CheckLeft' < CheckLeft]_factVars
          /\ [](DraftLeft \in Nat) /\ [][DraftLeft' < DraftLeft]_draftVars
          /\ [](\A a \in Agents : UseLeft(tool[a]) \in 0..9)
          /\ [][\A a \in Agents : \/ tool[a].pc = "idle"
                                  \/ tool'[a] = tool[a]
                                  \/ UseShrinks(tool[a], tool'[a])]_localVars
BY JobsAreTheirParts, ResearchIsFinite, FactIsFinite, DraftIsFinite, UsesAreFinite, PTL
=============================================================================
