----------------------------- MODULE LocalSystem -----------------------------
(***************************************************************************)
(* The local-system agents: file tools, which run without an await, and     *)
(* shell_run, whose processes run beside the event loop, each under the     *)
(* engine's retry.  Agents of different tasks share the file system.        *)
(*                                                                          *)
(* A file is the set of its lines.  The model decides what to call; as its  *)
(* prompt tells it, it writes back what it has read with a line of its own. *)
(***************************************************************************)
EXTENDS Naturals

CONSTANTS
  Agents,
  Files,
  Guarded,     \* files that _guard_path, or for a command its patterns, refuse
  Lines,
  Absent,      \* no such file
  Unread,      \* the agent has not read the file
  Offered,     \* the tools that the engine performs for these agents
  Contents,    \* bound: what the files hold at first
  Outputs,     \* bound: what a command makes of its file
  Requests,    \* bound: the tool calls that a model may ask for
  MaxUses      \* bound: tool calls

ASSUME LocalAssumption ==
  /\ \A lines \in SUBSET Lines : lines # Absent /\ lines # Unread
  /\ Guarded \subseteq Files
  /\ Contents \subseteq [Files -> {Absent} \cup SUBSET Lines]
  /\ Outputs \subseteq {Absent} \cup SUBSET Lines
  /\ Requests # {} /\ Requests \subseteq [name : Offered, file : Files, old : Lines, line : Lines]
  /\ MaxUses \in Nat

MaxRetries == 3   \* stop_after_attempt(3)

VARIABLES
  disk,    \* disk[f]
  seen,    \* seen[a][f]: what a last read there
  tool,    \* tool[a]: the tool call of a
  procs,   \* the processes of commands that live
  uses     \* tool calls so far

localVars == <<disk, seen, tool, procs, uses>>

\* old: old_string of an edit; line: what is written.
Use == [pc : {"idle", "run", "shell", "killed"}, name : Offered, file : Files,
        old : Lines, line : Lines, attempt : 1..MaxRetries]

Fresh(pc, r) == [pc |-> pc, name |-> r.name, file |-> r.file, old |-> r.old,
                 line |-> r.line, attempt |-> 1]

NoUse == Fresh("idle", CHOOSE r \in Requests : TRUE)

\* "orphan": a child that the kill of the shell left behind, and that holds the
\* pipes; "detached": one whose output goes elsewhere.
Process == [state : {"running", "orphan", "detached"},
            agent : Agents, file : Files]

LocalInit(contents) ==
  /\ disk \in contents
  /\ seen = [a \in Agents |-> [f \in Files |-> Unread]]
  /\ tool = [a \in Agents |-> NoUse]
  /\ procs = {}
  /\ uses = 0

-----------------------------------------------------------------------------

UseTool(a, request) ==
  /\ tool[a].pc = "idle" /\ uses < MaxUses
  /\ uses' = uses + 1
  /\ tool' = [tool EXCEPT ![a] = Fresh("run", request)]
  /\ UNCHANGED <<disk, seen, procs>>

Running(a, name) ==
  tool[a].pc = "run" /\ tool[a].name = name /\ tool[a].file \notin Guarded

Returns(a) == tool' = [tool EXCEPT ![a] = NoUse]

\* Mutant: the attempt is not counted.
RaisesToolErrorUncounted(a) == tool' = [tool EXCEPT ![a].pc = "run"]

\* ToolError: tried again, or given up.
RaisesToolError(a) ==
  IF tool[a].attempt < MaxRetries
  THEN tool' = [tool EXCEPT ![a].pc = "run", ![a].attempt = @ + 1]
  ELSE Returns(a)

\* Looked at first, by every tool.
GuardRefuses(a) ==
  /\ tool[a].pc = "run" /\ tool[a].file \in Guarded
  /\ RaisesToolError(a)
  /\ UNCHANGED <<disk, seen, procs, uses>>

Here(a) == disk[tool[a].file]

FileRead(a) ==
  /\ Running(a, "file_read")
  /\ IF Here(a) = Absent
     THEN RaisesToolError(a) /\ UNCHANGED seen
     ELSE Returns(a) /\ seen' = [seen EXCEPT ![a][tool[a].file] = Here(a)]
  /\ UNCHANGED <<disk, procs, uses>>

\* The file need not exist, and is replaced by what the agent makes of its copy.
FileWrite(a) ==
  LET f == tool[a].file
      copy == IF seen[a][f] = Unread THEN {} ELSE seen[a][f]
  IN  /\ Running(a, "file_write")
      /\ disk' = [disk EXCEPT ![f] = copy \cup {tool[a].line}]
      /\ Returns(a)
      /\ UNCHANGED <<seen, procs, uses>>

\* Mutant: the edit is made in the copy that the agent has read.
FileEditInCopy(a) ==
  LET f == tool[a].file
      copy == IF seen[a][f] = Unread THEN Here(a) ELSE seen[a][f]
  IN  /\ Running(a, "file_edit")
      /\ IF copy = Absent \/ tool[a].old \notin copy
         THEN RaisesToolError(a) /\ UNCHANGED disk
         ELSE Returns(a) /\ disk' = [disk EXCEPT ![f] = (copy \ {tool[a].old}) \cup {tool[a].line}]
      /\ UNCHANGED <<seen, procs, uses>>

\* Reads, replaces and writes back without an await.
FileEdit(a) ==
  LET f == tool[a].file
  IN  /\ Running(a, "file_edit")
      /\ IF Here(a) = Absent \/ tool[a].old \notin Here(a)
         THEN RaisesToolError(a) /\ UNCHANGED disk
         ELSE /\ Returns(a)
              /\ disk' = [disk EXCEPT ![f] = (@ \ {tool[a].old}) \cup {tool[a].line}]
      /\ UNCHANGED <<seen, procs, uses>>

\* write_text() truncates the file before it encodes, so an error there leaves
\* it empty; it is not a ToolError, and not retried.
WriteBreaksOff(a) ==
  /\ \/ Running(a, "file_write")
     \/ Running(a, "file_edit") /\ Here(a) # Absent /\ tool[a].old \in Here(a)
  /\ disk' = [disk EXCEPT ![tool[a].file] = {}]
  /\ Returns(a)
  /\ UNCHANGED <<seen, procs, uses>>

\* A directory is no file; mkdir() may raise, which is not retried.
FolderCreate(a) ==
  /\ Running(a, "folder_create")
  /\ Returns(a)
  /\ UNCHANGED <<disk, seen, procs, uses>>

\* Not a directory is a ToolError.
FolderList(a) ==
  /\ Running(a, "folder_list")
  /\ Returns(a) \/ RaisesToolError(a)
  /\ UNCHANGED <<disk, seen, procs, uses>>

-----------------------------------------------------------------------------
(* shell_run: a command does to its file what it likes, once or again, at   *)
(* any time while a process of it lives, or never.                          *)

Proc(a, state) == [state |-> state, agent |-> a, file |-> tool[a].file]

\* The process of a's command ends, or lives on in another state.
Leaves(a, state) ==
  procs' = (procs \ {Proc(a, "running")}) \cup
           (IF state = "gone" THEN {} ELSE {Proc(a, state)})

Spawn(a) ==
  /\ Running(a, "shell_run")
  /\ procs' = procs \cup {Proc(a, "running")}
  /\ tool' = [tool EXCEPT ![a].pc = "shell"]
  /\ UNCHANGED <<disk, seen, uses>>

\* It appends, rewrites, truncates or removes.  The event loop's timer does not
\* stop it, only kill() does.
Act(p, content) ==
  /\ p \in procs
  /\ disk' = [disk EXCEPT ![p.file] = content]
  /\ UNCHANGED <<seen, tool, procs, uses>>

\* communicate() returns: whatever the exit code, the tool returns.  A process
\* put in the background may live on.
ShellExits(a, state) ==
  /\ tool[a].pc = "shell"
  /\ state \in {"gone", "detached"}
  /\ Leaves(a, state)
  /\ Returns(a)
  /\ UNCHANGED <<disk, seen, uses>>

\* wait_for gives up and proc.kill() kills the shell, not its children.
ShellTimesOut(a, state) ==
  /\ tool[a].pc = "shell"
  /\ state \in {"gone", "detached", "orphan"}
  /\ Leaves(a, state)
  /\ tool' = [tool EXCEPT ![a].pc = "killed"]
  /\ UNCHANGED <<disk, seen, uses>>

\* Mutant: nobody waits for the pipes.
PipesClosedUnawaited(a) ==
  /\ tool[a].pc = "killed"
  /\ RaisesToolError(a)
  /\ UNCHANGED <<disk, seen, procs, uses>>

\* The second communicate() returns once nothing holds the pipes: a ToolError,
\* so that the engine runs the command again.
PipesClosed(a) ==
  /\ tool[a].pc = "killed"
  /\ Proc(a, "orphan") \notin procs
  /\ RaisesToolError(a)
  /\ UNCHANGED <<disk, seen, procs, uses>>

ProcessEnds(p) ==
  /\ p \in procs /\ p.state # "running"
  /\ procs' = procs \ {p}
  /\ UNCHANGED <<disk, seen, tool, uses>>

\* A step of the event loop for a's tool call.
ToolStep(a) ==
  \/ GuardRefuses(a) \/ FileRead(a) \/ FileWrite(a) \/ FileEdit(a) \/ WriteBreaksOff(a)
  \/ FolderCreate(a) \/ FolderList(a) \/ Spawn(a) \/ PipesClosed(a)
  \/ \E state \in {"gone", "detached", "orphan"} : ShellTimesOut(a, state) \/ ShellExits(a, state)

LocalNext ==
  \/ \E a \in Agents : ToolStep(a)
  \/ \E a \in Agents, request \in Requests : UseTool(a, request)
  \/ \E p \in procs : \/ ProcessEnds(p)
                     \/ \E content \in Outputs : Act(p, content)

LocalSpec == LocalInit(Contents) /\ [][LocalNext]_localVars

-----------------------------------------------------------------------------

LocalTypeOK ==
  /\ disk \in [Files -> {Absent} \cup SUBSET Lines]
  /\ seen \in [Agents -> [Files -> {Unread} \cup SUBSET Lines]]
  /\ tool \in [Agents -> Use]
  /\ procs \subseteq Process
  /\ uses \in 0..MaxUses

(***************************************************************************)
(* A command is not run again while its last run still holds the pipes: of  *)
(* an agent's processes, past attempts and past calls included, none is     *)
(* attached but the one its tool waits for.  (A detached child may be.)     *)
(***************************************************************************)
OneAttached ==
  \A p \in procs : p.state # "detached" =>
    /\ tool[p.agent].pc = IF p.state = "running" THEN "shell" ELSE "killed"
    /\ \A q \in procs : q.agent = p.agent /\ q.state # "detached" => q = p

(***************************************************************************)
(* A line of a file is lost only by an edit of that line, by a write of an  *)
(* agent that read the file before the line was there, with the whole file  *)
(* when a write breaks off, or while a command's process works on the file: *)
(* an edit, unlike a write, never undoes what others have made of the file  *)
(* since its agent read it.                                                 *)
(***************************************************************************)
LostOnlyByStaleWriter ==
  [][\A f \in Files : disk[f] # Absent =>
       \A l \in disk[f] : disk'[f] = Absent \/ l \notin disk'[f] =>
         \/ \E p \in procs : p.file = f
         \/ \E a \in Agents :
              /\ tool[a].pc = "run" /\ tool[a].file = f
              /\ \/ tool[a].name = "file_edit" /\ tool[a].old = l
                 \/ tool[a].name = "file_write" /\ (seen[a][f] = Unread \/ l \notin seen[a][f])
                 \/ disk'[f] = {}]_localVars

\* The tool call waits for a process that lives on.
HeldUp(a) == tool[a].pc = "killed" /\ Proc(a, "orphan") \in procs
=============================================================================
