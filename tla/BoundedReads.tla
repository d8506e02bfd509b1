---------------------------- MODULE BoundedReads ----------------------------
(***************************************************************************)
(* The two reads on which the validation tooling builds its identities:    *)
(* stable_read of normal_validation_custody.py, a file read in chunks      *)
(* while others may write to it or replace it, and read_git_output of      *)
(* offline_release_source.py, the two pipes of a child read by two threads *)
(* under a deadline.  Writes change the file's times.                      *)
(*                                                                         *)
(* Definitions named <Definition>_<slip> are the definition they precede   *)
(* with a plausible slip in it; nothing uses them.                         *)
(***************************************************************************)
EXTENDS Naturals, Sequences

CONSTANTS Chunks,   \* bound: chunks of the file and of a pipe
          Limit,    \* of a pipe: 16384 bytes
          MaxWrites \* bound: writes to the file

VARIABLES
  file,   \* the inode the path names: identity and version
  held,   \* the inode of the descriptor
  chunks, \* stable_read: the versions of the chunks read
  read,   \*   its step
  pipe,   \* what is left in each pipe, and whether the child has closed it
  output, \* read_git_output: chunks read from each
  done,   \*   completed[i]
  invalid,
  thread, \*   step of each reader
  child,  \*   running, or its status
  got     \*   what the call ends with

fileVars == <<file, held, chunks, read>>
pipeVars == <<pipe, output, done, invalid, thread, child, got>>
readVars == <<fileVars, pipeVars>>

Streams == 1..2
ReadInit ==
  /\ file = [inode |-> 1, version |-> 0] /\ held = file
  /\ chunks = <<>>
  /\ \/ read = "open" /\ got = "idle"
     \/ read = "idle" /\ got = "waiting"
  /\ pipe = [i \in Streams |-> [sent |-> 0, open |-> TRUE]]
  /\ output = [i \in Streams |-> 0] /\ done = [i \in Streams |-> FALSE]
  /\ invalid = FALSE /\ thread = [i \in Streams |-> "drain"]
  /\ child = "running"
-----------------------------------------------------------------------------
(* stable_read.                                                             *)

\* The first fstat; `held' remembers what it saw.
Open ==
  /\ read = "open" /\ read' = "read" /\ held' = file
  /\ UNCHANGED <<file, chunks, pipeVars>>

\* A file that was replaced is still read through the descriptor.
ReadChunk ==
  /\ read = "read" /\ Len(chunks) < Chunks
  /\ chunks' = Append(chunks, IF file.inode = held.inode THEN file.version ELSE held.version)
  /\ UNCHANGED <<file, held, read, pipeVars>>

\* The last fstat and the lstat of the path against the first.
Unchanged_inode == file.inode = held.inode
Unchanged == file = held
Checked ==
  /\ read = "read" /\ Len(chunks) = Chunks
  /\ read' = (IF Unchanged THEN "returned" ELSE "raised")
  /\ UNCHANGED <<file, held, chunks, pipeVars>>

Write ==
  /\ read \notin {"returned", "idle"} /\ file.inode + file.version <= MaxWrites
  /\ \/ file' = [file EXCEPT !.version = @ + 1]
     \/ file' = [inode |-> file.inode + 1, version |-> 0]
  /\ UNCHANGED <<held, chunks, read, pipeVars>>
-----------------------------------------------------------------------------
(* read_git_output.                                                         *)

Child ==
  /\ got # "idle" /\ child = "running"
  /\ \/ \E i \in Streams :
          /\ pipe[i].sent < Chunks + 1
          /\ pipe' = [pipe EXCEPT ![i].sent = @ + 1] /\ UNCHANGED child
     \/ child' \in {"zero", "nonzero"}
        /\ pipe' = [i \in Streams |-> [pipe[i] EXCEPT !.open = FALSE]]
  /\ UNCHANGED <<fileVars, output, done, invalid, thread, got>>

\* drain(): a chunk, the end, or one too many or a failing read; `completed' is
\* set last, in its finally.
DrainSpoils(i) == thread' = [thread EXCEPT ![i] = "finally"] /\ invalid' = TRUE /\ UNCHANGED done

Drain(i) ==
  /\ got # "idle"
  /\ \/ /\ thread[i] = "drain" /\ output[i] < pipe[i].sent /\ output[i] < Limit
        /\ output' = [output EXCEPT ![i] = @ + 1] /\ UNCHANGED <<thread, invalid, done>>
     \/ /\ thread[i] = "drain" /\ output[i] = pipe[i].sent /\ ~pipe[i].open
        /\ thread' = [thread EXCEPT ![i] = "finally"] /\ UNCHANGED <<output, invalid, done>>
     \/ /\ thread[i] = "drain" /\ output[i] < pipe[i].sent
        /\ DrainSpoils(i) /\ UNCHANGED output
     \/ /\ thread[i] = "finally" /\ done' = [done EXCEPT ![i] = TRUE]
        /\ thread' = [thread EXCEPT ![i] = "end"] /\ UNCHANGED <<output, invalid>>
  /\ UNCHANGED <<fileVars, pipe, child, got>>

\* The main thread leaves its loop when the child is over and both readers are,
\* and looks at `invalid' after that; it may give up in it at any time.
Collect ==
  /\ got = "waiting"
  /\ \/ /\ child # "running" /\ \A i \in Streams : done[i]
        /\ got' = (IF invalid \/ child = "nonzero" THEN "raised" ELSE "text")
     \/ got' = "raised"
  /\ UNCHANGED <<fileVars, pipe, output, done, invalid, thread, child>>

ReadNext == Open \/ ReadChunk \/ Checked \/ Write \/ Child \/ Collect \/ \E i \in Streams : Drain(i)

ReadSpec == ReadInit /\ [][ReadNext]_readVars
-----------------------------------------------------------------------------
\* What stable_read returns is, chunk by chunk, the one content the path named
\* when it returned; and read_git_output returns text only of a child that
\* succeeded, all of it.
ReadsAreWhole ==
  /\ read = "returned" => \A i \in 1..Chunks : chunks[i] = file.version
  /\ got = "text" => child = "zero" /\ \A i \in Streams : output[i] = pipe[i].sent
=============================================================================
