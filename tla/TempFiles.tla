-------------------------------- MODULE TempFiles --------------------------------
(***************************************************************************)
(* The list of temporary files of sort.c and the signals that end sort:    *)
(* create_temp_file, zaptemp, the fork in pipe_fork, exit_cleanup and      *)
(* sighandler, statement by statement, with the critical sections in which *)
(* a thread blocks the signals that are caught.                            *)
(*                                                                         *)
(* Temporary files are made and removed by the main thread while no other  *)
(* thread runs.  While lines are sorted and written, other threads run,    *)
(* and any thread may exit with a diagnostic (write_line) or be the one    *)
(* that a signal interrupts: pthread_sigmask is for one thread only.       *)
(*                                                                         *)
(* A node and the file whose name it holds are one value.  What is free    *)
(* may be allocated again; a name that exists is not chosen by mkostemp.   *)
(***************************************************************************)
EXTENDS Integers, Sequences, FiniteSets, SequencesExt

CONSTANTS
  Files,    \* the nodes, and the names of their files
  Workers   \* threads other than the main one

Main == "main"
Threads == Workers \cup {Main}
Null == "null"
TempHead == "temphead"  \* the address of temphead; &node->next is written node

ASSUME FilesAssumption ==
  /\ {Null, TempHead, Main, "no", "none"} \cap (Files \cup Workers) = {}
  /\ IsFiniteSet(Files) /\ IsFiniteSet(Workers)

VARIABLES
  next,      \* what the pointers hold: temphead, and the next field of each node
  temptail,  \* the address of the last pointer
  nodes,     \* the nodes that are allocated
  disk,      \* the files that exist
  pc,        \* where the main thread is
  node, pnode, after, saved,  \* locals: node, pnode and next of zaptemp, saved_temphead
  blocked,   \* the threads that block the signals
  cleaning,  \* of each thread: the node that cleanup has reached, or "no"
  exiting,   \* the thread that called exit, or Null
  child,     \* what temphead is in the child that was forked, or "none"
  twice,     \* whether a file was removed that did not exist
  ended      \* how the process ended, or ""

listVars == <<next, temptail, nodes>>
locals == <<node, pnode, after, saved>>
vars == <<listVars, disk, pc, locals, blocked, cleaning, exiting, child, twice, ended>>

Init ==
  /\ next = [p \in Files \cup {TempHead} |-> Null]
  /\ temptail = TempHead
  /\ nodes = {} /\ disk = {}
  /\ pc = "main"
  /\ node = Null /\ pnode = TempHead /\ after = Null /\ saved = Null
  /\ blocked = {}
  /\ cleaning = [t \in Threads |-> "no"]
  /\ exiting = Null /\ child = "none" /\ twice = FALSE /\ ended = ""

\* A thread goes on with its own statements: no signal handler runs on it.
Runs(t) == ended = "" /\ cleaning[t] = "no" /\ exiting # t

unlink(f) == disk' = disk \ {f} /\ twice' = (twice \/ f \notin disk)

\* The main thread's statements of the form "at from: body; goto to".
Step(from, to) == Runs(Main) /\ pc = from /\ pc' = to

Masked_Not(t) == blocked   \* mutant: the signals stay unblocked
Masked(t) == blocked \cup {t}
cs_enter(t) == blocked' = Masked(t)
cs_leave(t) == blocked' = blocked \ {t}

-----------------------------------------------------------------------------
(* create_temp_file *)

CreateEnter ==
  /\ Step("main", "create")
  /\ \E f \in Files \ (nodes \cup disk) : /\ node' = f /\ nodes' = nodes \cup {f}
                                          /\ next' = [next EXCEPT ![f] = Null]
  /\ cs_enter(Main)
  /\ UNCHANGED <<temptail, disk, pnode, after, saved, cleaning, exiting, child, twice, ended>>

\* mkostemp
CreateFile ==
  /\ Step("create", "link") /\ disk' = disk \cup {node}
  /\ UNCHANGED <<listVars, locals, blocked, cleaning, exiting, child, twice, ended>>

\* mkostemp fails for want of descriptors; the node is freed.
CreateFails ==
  /\ Step("create", "main") /\ nodes' = nodes \ {node}
  /\ cs_leave(Main)
  /\ UNCHANGED <<next, temptail, disk, locals, cleaning, exiting, child, twice, ended>>

CreateLink ==
  /\ Step("link", "tail") /\ next' = [next EXCEPT ![temptail] = node]
  /\ UNCHANGED <<temptail, nodes, disk, locals, blocked, cleaning, exiting, child, twice, ended>>

CreateTail ==
  /\ Step("tail", "main") /\ temptail' = node
  /\ cs_leave(Main)
  /\ UNCHANGED <<next, nodes, disk, locals, cleaning, exiting, child, twice, ended>>

-----------------------------------------------------------------------------
(* zaptemp *)

\* The pointers from p on, and from temphead, in the order of the list.
Chains == UNION {[1..k -> Files \cup {TempHead}] : k \in 1..(Cardinality(Files) + 1)}
IsChain(s, p) == /\ s[1] = p
                 /\ \A k \in 1..(Len(s) - 1) : next[s[k]] = s[k + 1]
                 /\ next[s[Len(s)]] = Null
From(p) == CHOOSE s \in Chains : IsChain(s, p)
Pointers == From(TempHead)
List == Tail(Pointers)

\* The search, and wait_proc; then next, and cs_enter.
ZapEnter ==
  /\ Step("main", "unlink")
  /\ \E k \in DOMAIN List : /\ pnode' = Pointers[k] /\ node' = List[k]
                            /\ after' = next[List[k]]
  /\ cs_enter(Main)
  /\ UNCHANGED <<listVars, disk, saved, cleaning, exiting, child, twice, ended>>

ZapFile ==
  /\ Step("unlink", "remove") /\ unlink(node)
  /\ UNCHANGED <<listVars, locals, blocked, cleaning, exiting, child, ended>>

ZapNode ==
  /\ Step("remove", "zapped") /\ next' = [next EXCEPT ![pnode] = after]
  /\ cs_leave(Main)
  /\ UNCHANGED <<temptail, nodes, disk, locals, cleaning, exiting, child, twice, ended>>

\* After the critical section: the tail, if the last node went, and free.
TailOf == IF after = Null THEN pnode ELSE temptail

ZapTail ==
  /\ Step("zapped", "main")
  /\ temptail' = TailOf
  /\ nodes' = nodes \ {node}
  /\ UNCHANGED <<next, disk, locals, blocked, cleaning, exiting, child, twice, ended>>

-----------------------------------------------------------------------------
(* pipe_fork *)

ForkHead_Kept == next[TempHead]   \* mutant: the child keeps the list
ForkHead == Null

ForkEnter ==
  /\ Step("main", "fork")
  /\ cs_enter(Main)
  /\ saved' = next[TempHead]
  /\ next' = [next EXCEPT ![TempHead] = ForkHead]
  /\ UNCHANGED <<temptail, nodes, disk, node, pnode, after, cleaning, exiting, child, twice, ended>>

\* fork, which may fail, and the parent's temphead = saved_temphead.
Fork ==
  /\ Step("fork", "forked")
  /\ child' \in {next[TempHead], "none"}
  /\ next' = [next EXCEPT ![TempHead] = saved]
  /\ UNCHANGED <<temptail, nodes, disk, locals, blocked, cleaning, exiting, twice, ended>>

ForkLeave ==
  /\ Step("forked", "main") /\ cs_leave(Main)
  /\ UNCHANGED <<listVars, disk, locals, cleaning, exiting, child, twice, ended>>

\* The child is interrupted before exec: its sighandler cleans up what it has.
ChildSignal ==
  /\ child # "none" /\ child' = "none"
  /\ disk' = disk \ (IF child = Null THEN {} ELSE ToSet(From(child)))
  /\ UNCHANGED <<listVars, pc, locals, blocked, cleaning, exiting, twice, ended>>

ChildExec ==
  /\ child # "none" /\ child' = "none"
  /\ UNCHANGED <<listVars, disk, pc, locals, blocked, cleaning, exiting, twice, ended>>

-----------------------------------------------------------------------------
(* Threads *)

SortBegins == /\ Step("main", "sort")
              /\ UNCHANGED <<listVars, disk, locals, blocked, cleaning, exiting, child, twice, ended>>
SortEnds == /\ Step("sort", "main")
            /\ exiting = Null /\ \A t \in Workers : cleaning[t] = "no"
            /\ UNCHANGED <<listVars, disk, locals, blocked, cleaning, exiting, child, twice, ended>>

\* The threads there are.
Alive == IF pc = "sort" THEN Threads ELSE {Main}

-----------------------------------------------------------------------------
(* The end *)

\* exit, called by die or at the end of main: exit_cleanup enters its critical
\* section if there is a list.
Exit(t) ==
  /\ Runs(t) /\ t \in Alive /\ exiting = Null
  /\ pc \in {"main", "sort"}
  /\ exiting' = t
  /\ IF next[TempHead] # Null
     THEN blocked' = Masked(t) /\ cleaning' = [cleaning EXCEPT ![t] = next[TempHead]]
     ELSE UNCHANGED <<blocked, cleaning>>
  /\ UNCHANGED <<listVars, disk, pc, locals, child, twice, ended>>

\* A signal interrupts thread t, and sighandler calls cleanup.  It blocks the
\* signals for t while it runs.
Signal(t) ==
  /\ ended = "" /\ t \in Alive \ blocked
  /\ blocked' = blocked \cup {t}
  /\ cleaning' = [cleaning EXCEPT ![t] = next[TempHead]]
  /\ UNCHANGED <<listVars, disk, pc, locals, exiting, child, twice, ended>>

\* cleanup: one round of its loop.
CleanOne(t) ==
  /\ ended = "" /\ cleaning[t] \in Files
  /\ unlink(cleaning[t])
  /\ cleaning' = [cleaning EXCEPT ![t] = next[cleaning[t]]]
  /\ UNCHANGED <<listVars, pc, locals, blocked, exiting, child, ended>>

\* The end of cleanup.  exit_cleanup goes on to the end of the process, and so does
\* sighandler, by the signal it raises.
CleanEnd(t) ==
  /\ ended = "" /\ cleaning[t] = Null
  /\ next' = [next EXCEPT ![TempHead] = Null]
  /\ ended' = IF exiting = t THEN "exit" ELSE "signal"
  /\ UNCHANGED <<temptail, nodes, disk, pc, locals, blocked, cleaning, exiting, child, twice>>

\* There was no list, or it was emptied.
ExitEnd(t) ==
  /\ ended = "" /\ exiting = t /\ cleaning[t] = "no"
  /\ ended' = "exit"
  /\ UNCHANGED <<listVars, disk, pc, locals, blocked, cleaning, exiting, child, twice>>

Next ==
  \/ CreateEnter \/ CreateFile \/ CreateFails \/ CreateLink \/ CreateTail
  \/ ZapEnter \/ ZapFile \/ ZapNode \/ ZapTail
  \/ ForkEnter \/ Fork \/ ForkLeave \/ ChildSignal \/ ChildExec
  \/ SortBegins \/ SortEnds
  \/ \E t \in Threads : Exit(t) \/ Signal(t) \/ CleanOne(t) \/ CleanEnd(t) \/ ExitEnd(t)

Spec == Init /\ [][Next]_vars

-----------------------------------------------------------------------------
(* Properties *)

TypeOK ==
  /\ next \in [Files \cup {TempHead} -> Files \cup {Null}]
  /\ {temptail, pnode} \subseteq Files \cup {TempHead}
  /\ {node, after, saved} \subseteq Files \cup {Null}
  /\ nodes \subseteq Files /\ disk \subseteq Files
  /\ blocked \subseteq Threads /\ exiting \in Threads \cup {Null}
  /\ cleaning \in [Threads -> Files \cup {Null, "no"}]
  /\ child \in Files \cup {Null, "none"}

\* While sort runs, the list is what is on disk, but for the file that a critical
\* section is about.  In particular a child that dies between fork and exec removes
\* nothing (the comment in pipe_fork).  No freed node is reached, by the list or by a
\* handler that walks it, and temptail is the address of the last pointer whenever
\* create_temp_file uses it, also after the last node was zapped.
Known == LET first == IF pc = "fork" THEN saved ELSE next[TempHead]
         IN IF first = Null THEN {} ELSE ToSet(From(first))
ListIsDisk ==
  /\ ended = "" /\ (\A t \in Threads : cleaning[t] = "no")
       => disk = CASE pc = "link" -> Known \cup {node}
                   [] pc = "remove" -> Known \ {node}
                   [] OTHER -> Known
  /\ ended = "" => ToSet(List) \cup {cleaning[t] : t \in Threads} \subseteq nodes \cup {Null, "no"}
  /\ pc \in {"main", "create", "link"} /\ ended = "" => temptail = Last(Pointers)

\* However sort ends, at whatever statement a signal comes and whichever thread it
\* interrupts, no temporary file is left: the critical sections do what they are for.
\* A file is removed twice only if two threads clean up at the same time, which the
\* critical section of exit_cleanup cannot prevent: it is for one thread.
Cleaners == {t \in Threads : cleaning[t] # "no"}
NothingLeft ==
  /\ ended # "" => disk = {}
  /\ twice => Cardinality(Cleaners) > 1
=============================================================================
