--------------------------- MODULE WriterPreference ---------------------------
(***************************************************************************)
(* The lock that cvmx-rwlock.h implements: any number of readers or one    *)
(* writer; writers in the order in which they asked; and a reader waits    *)
(* for every writer that had asked before it did.  A writer that asks      *)
(* later may still find the reader let in before it, which is weaker than  *)
(* what the comment of cvmx_rwlock_wp_lock_t says of waiting writers.      *)
(***************************************************************************)
EXTENDS Sequences

CONSTANT Core

VARIABLES
  reading,   \* the cores that hold the lock for reading
  writing,   \* the core that holds it for writing
  queue,     \* the writers that wait, first come first
  wanting,   \* the readers that wait
  ahead      \* the writers each reader still has to wait for

avars == <<reading, writing, queue, wanting, ahead>>

Waiting == {queue[k] : k \in DOMAIN queue}

Init ==
  /\ reading = {} /\ writing = {} /\ wanting = {}
  /\ queue = <<>>
  /\ ahead = [c \in Core |-> {}]

AskWrite(c) ==
  /\ c \notin reading \cup writing \cup wanting \cup Waiting
  /\ queue' = Append(queue, c)
  /\ UNCHANGED <<reading, writing, wanting, ahead>>

GrantWrite ==
  /\ queue # <<>> /\ reading = {} /\ writing = {}
  /\ writing' = {Head(queue)}
  /\ queue' = Tail(queue)
  /\ UNCHANGED <<reading, wanting, ahead>>

EndWrite(c) ==
  /\ c \in writing
  /\ writing' = {}
  /\ ahead' = [r \in Core |-> ahead[r] \ {c}]
  /\ UNCHANGED <<reading, queue, wanting>>

AskRead(c) ==
  /\ c \notin reading \cup writing \cup wanting \cup Waiting
  /\ wanting' = wanting \cup {c}
  /\ ahead' = [ahead EXCEPT ![c] = Waiting \cup writing]
  /\ UNCHANGED <<reading, writing, queue>>

GrantRead(c) ==
  /\ c \in wanting
  /\ ahead[c] = {} /\ writing = {}
  /\ wanting' = wanting \ {c}
  /\ reading' = reading \cup {c}
  /\ UNCHANGED <<writing, queue, ahead>>

EndRead(c) ==
  /\ c \in reading
  /\ reading' = reading \ {c}
  /\ UNCHANGED <<writing, queue, wanting, ahead>>

Next ==
  \/ GrantWrite
  \/ \E c \in Core : \/ AskWrite(c) \/ EndWrite(c)
                     \/ AskRead(c) \/ GrantRead(c) \/ EndRead(c)

Spec == Init /\ [][Next]_avars
=============================================================================
