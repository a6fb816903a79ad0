------------------------------- MODULE CvmxPko -------------------------------
(***************************************************************************)
(* Sending a packet through the packet output unit (cvmx-pko.h, cvmx-pko.c)*)
(* on one output queue.  The queue is a chain of command buffers from an   *)
(* FPA pool.  A sender reserves two words by fetch-and-add on a register   *)
(* that holds the buffer and the index, writes its command there and rings *)
(* the doorbell; the hardware reads the words, follows the pointer in the  *)
(* last word of a buffer and frees the buffer it leaves.                   *)
(*                                                                         *)
(* Senders exclude each other with an atomic tag (use_locking = 1).        *)
(***************************************************************************)
EXTENDS Integers, Sequences, FiniteSets

CONSTANTS
  Core,      \* the cores that send
  Packet,    \* packets: what the hardware is told to send
  Buffer,    \* the buffers of CVMX_FPA_OUTPUT_BUFFER_POOL
  PoolWords, \* CVMX_FPA_OUTPUT_BUFFER_POOL_SIZE / 8
  None

CVMX_PKO_COMMAND_BUFFER_SIZE_ADJUST == 1

ASSUME SizeAssumption == PoolWords \in Nat /\ PoolWords >= 6 /\ PoolWords % 2 = 0
ASSUME NoneAssumption == None \notin Core \cup Packet \cup Buffer
ASSUME BufferAssumption == IsFiniteSet(Buffer)

VARIABLES
  fau,      \* CVMX_FAU_REG_OQ_ADDR_INDEX: where the next command goes
  tag,      \* the core that has the atomic tag of the queue
  mem,      \* the words of each buffer
  pool,     \* the buffers in the pool
  scratch,  \* CVMX_SCR_OQ_BUF_PRE_ALLOC of each core
  pc,       \* where each core is in send_packet
  pkt,      \* the packet it sends
  old,      \* what its fetch-and-add returned
  enabled,  \* ena_pko
  hw,       \* where the hardware reads next
  bell,     \* words rung and not yet read
  lost,     \* history: buffers that a shutdown left in no place
  doubled   \* history: a shutdown freed a buffer that the pool already had

queue == <<fau, mem, pool, scratch>>
spoilt == <<lost, doubled>>
vars  == <<fau, tag, mem, pool, scratch, pc, pkt, old, enabled, hw, bell, lost, doubled>>

Place   == [buf : Buffer \cup {None}, idx : 0 .. PoolWords]
Nowhere == [buf |-> None, idx |-> 0]

\* a command is two words, cmd and then ptr
Cmd(p) == <<"cmd", p>>
Ptr(p) == <<"ptr", p>>
Words  == ({"cmd", "ptr"} \X Packet) \cup Buffer \cup {None}

\* cvmx_pko_initialize_global: "an odd number of 64bit words"
HwSize == PoolWords - 1

TypeOK ==
  /\ fau \in Place
  /\ tag \in Core \cup {None}
  /\ mem \in [Buffer -> [0 .. PoolWords - 1 -> Words]]
  /\ pool \in SUBSET Buffer
  /\ scratch \in [Core -> Buffer \cup {None}]
  /\ pc \in [Core -> {"idle", "wait", "finish", "bell", "sent", "nomem"}]
  /\ pkt \in [Core -> Packet \cup {None}]
  /\ old \in [Core -> Place]
  /\ enabled \in BOOLEAN
  /\ hw \in Place
  /\ bell \in 0 .. 2 * PoolWords * Cardinality(Buffer)
  /\ lost \in SUBSET Buffer
  /\ doubled \in BOOLEAN

Blank == [i \in 0 .. PoolWords - 1 |-> None]

\* the queue is configured, each core that could has its buffer in advance
Init ==
  \E b \in Buffer, s \in [Core -> Buffer \cup {None}] :
    /\ \A c, d \in Core : s[c] # None => s[c] # b /\ (s[c] = s[d] => c = d)
    /\ fau = [buf |-> b, idx |-> 0]
    /\ hw = fau
    /\ scratch = s
    /\ pool = Buffer \ ({b} \cup {s[c] : c \in Core})
    /\ (\E c \in Core : s[c] = None) => pool = {}
    /\ tag = None
    /\ mem = [x \in Buffer |-> Blank]
    /\ pc = [c \in Core |-> "idle"]
    /\ pkt = [c \in Core |-> None]
    /\ old = [c \in Core |-> Nowhere]
    /\ enabled = TRUE
    /\ bell = 0
    /\ lost = {} /\ doubled = FALSE

Goto(c, l) == pc' = [pc EXCEPT ![c] = l]

-----------------------------------------------------------------------------
(* cvmx_pko_send_packet_prepare *)

\* the tag switch is started
Prepare(c, p) ==
  /\ enabled /\ pc[c] = "idle"
  /\ \A d \in Core : pkt[d] # p
  /\ pkt' = [pkt EXCEPT ![c] = p]
  /\ Goto(c, "wait")
  /\ UNCHANGED <<queue, tag, old, enabled, hw, bell, spoilt>>

\* faulty: the fetch-and-add does not wait for the tag
Reserve_NoTag(c) ==
  /\ pc[c] = "wait"
  /\ tag' = c
  /\ old' = [old EXCEPT ![c] = fau]
  /\ fau' = [fau EXCEPT !.idx = @ + 2]
  /\ Goto(c, "finish")
  /\ UNCHANGED <<mem, pool, scratch, pkt, enabled, hw, bell, spoilt>>

\* the tag is had and the tagwait fetch-and-add done
Reserve(c) ==
  /\ pc[c] = "wait" /\ tag = None
  /\ tag' = c
  /\ old' = [old EXCEPT ![c] = fau]
  /\ fau' = [fau EXCEPT !.idx = @ + 2]
  /\ Goto(c, "finish")
  /\ UNCHANGED <<mem, pool, scratch, pkt, enabled, hw, bell, spoilt>>

-----------------------------------------------------------------------------
(* cvmx_pko_send_packet_finish *)

\* the command leaves room for another
Room(i) == i < PoolWords - 3 - CVMX_PKO_COMMAND_BUFFER_SIZE_ADJUST

WriteCommand(c) ==
  /\ pc[c] = "finish" /\ Room(old[c].idx)
  /\ mem' = [mem EXCEPT ![old[c].buf][old[c].idx] = Cmd(pkt[c]),
                        ![old[c].buf][old[c].idx + 1] = Ptr(pkt[c])]
  /\ Goto(c, "bell")
  /\ UNCHANGED <<fau, tag, pool, scratch, pkt, old, enabled, hw, bell, spoilt>>

\* cvmx_fpa_async_alloc into the scratch memory: a buffer, or 0 from an empty pool
AllocAhead(c) ==
  IF pool = {}
    THEN scratch' = [scratch EXCEPT ![c] = None] /\ pool' = pool
    ELSE \E b \in pool : scratch' = [scratch EXCEPT ![c] = b] /\ pool' = pool \ {b}

\* faulty: the reserved words are not given back
NoBuffer_Keep(c) ==
  /\ pc[c] = "finish" /\ ~Room(old[c].idx)
  /\ scratch[c] = None
  /\ AllocAhead(c)
  /\ Goto(c, "nomem")
  /\ UNCHANGED <<fau, tag, mem, pkt, old, enabled, hw, bell, spoilt>>

\* CVMX_PKO_NO_MEMORY
NoBuffer(c) ==
  /\ pc[c] = "finish" /\ ~Room(old[c].idx)
  /\ scratch[c] = None
  /\ AllocAhead(c)
  /\ fau' = [fau EXCEPT !.idx = @ - 2]
  /\ Goto(c, "nomem")
  /\ UNCHANGED <<tag, mem, pkt, old, enabled, hw, bell, spoilt>>

\* the command goes in the last words and is followed by the next buffer; with
\* two words left, one of the command's goes there
NewBuffer(c) ==
  LET b == old[c].buf
      i == old[c].idx
      n == scratch[c]
      spills == i >= PoolWords - 3
  IN /\ pc[c] = "finish" /\ ~Room(i)
     /\ n # None
     /\ AllocAhead(c)
     /\ mem' = IF spills
                 THEN [mem EXCEPT ![b][i] = Cmd(pkt[c]), ![b][i + 1] = n,
                                  ![n][0] = Ptr(pkt[c])]
                 ELSE [mem EXCEPT ![b][i] = Cmd(pkt[c]), ![b][i + 1] = Ptr(pkt[c]),
                                  ![b][i + 2] = n]
     /\ fau' = [buf |-> n, idx |-> IF spills THEN 1 ELSE 0]
     /\ Goto(c, "bell")
     /\ UNCHANGED <<tag, pkt, old, enabled, hw, bell, spoilt>>

\* cvmx_pko_doorbell, after CVMX_SYNCWS
Doorbell(c) ==
  /\ pc[c] = "bell"
  /\ bell' = bell + 2
  /\ Goto(c, "sent")
  /\ UNCHANGED <<queue, tag, pkt, old, enabled, hw, spoilt>>

\* the caller switches to another tag
Leave(c) ==
  /\ pc[c] \in {"sent", "nomem"}
  /\ tag' = None
  /\ pkt' = [pkt EXCEPT ![c] = None]
  /\ old' = [old EXCEPT ![c] = Nowhere]
  /\ Goto(c, "idle")
  /\ UNCHANGED <<queue, enabled, hw, bell, spoilt>>

-----------------------------------------------------------------------------
(* the packet output hardware *)

\* the place of the n-th word from here: the last word of each buffer leads on
PlaceAt(n) ==
  LET used == HwSize - 1
      at   == hw.idx + n
      hop[i \in 0 .. at \div used] ==
        IF i = 0 THEN hw.buf
        ELSE LET b == hop[i - 1] IN IF b \in Buffer THEN mem[b][used] ELSE None
  IN [buf |-> hop[at \div used], idx |-> at % used]

\* a command is read; a buffer that was read to its end is freed, and whatever
\* its next user writes there replaces the commands
Transmit ==
  LET next == PlaceAt(2)
      left == {hw.buf} \ {next.buf}
  IN /\ enabled /\ bell >= 2
     /\ hw' = next
     /\ bell' = bell - 2
     /\ pool' = pool \cup left
     /\ mem' = [b \in Buffer |-> IF b \in left THEN Blank ELSE mem[b]]
     /\ UNCHANGED <<fau, tag, scratch, pc, pkt, old, enabled, spoilt>>

\* the buffers from the hardware's place to the last word rung
Chain == IF enabled THEN {PlaceAt(n).buf : n \in 0 .. bell} ELSE {}

-----------------------------------------------------------------------------
(* cvmx_pko_shutdown, cvmx_pko_config_port *)

\* The cores have stopped sending; nothing waits for the hardware.  The buffer
\* the register points to is freed, those before it are not, and the register
\* keeps its address: another shutdown frees it again.
Shutdown ==
  /\ \A c \in Core : pc[c] = "idle"
  /\ enabled' = FALSE
  /\ doubled' = (doubled \/ fau.buf \in pool)
  /\ pool' = pool \cup {fau.buf}
  /\ lost' = lost \cup (Chain \ {fau.buf})
  /\ hw' = Nowhere /\ bell' = 0
  /\ mem' = [b \in Buffer |-> IF b \in Chain \cup {fau.buf} THEN Blank ELSE mem[b]]
  /\ UNCHANGED <<fau, tag, scratch, pc, pkt, old>>

\* a buffer for the queue, its address in the register and in the hardware; a
\* pool that has a buffer twice is not followed further (a bound)
Configure ==
  /\ ~enabled /\ ~doubled
  /\ \E b \in pool :
       /\ pool' = pool \ {b}
       /\ fau' = [buf |-> b, idx |-> 0]
       /\ hw' = [buf |-> b, idx |-> 0]
  /\ enabled' = TRUE
  /\ UNCHANGED <<tag, mem, scratch, pc, pkt, old, bell, spoilt>>

-----------------------------------------------------------------------------
Send(c) ==
  \/ Reserve(c) \/ WriteCommand(c) \/ NoBuffer(c) \/ NewBuffer(c)
  \/ Doorbell(c) \/ Leave(c)

Next ==
  \/ \E c \in Core : (\E p \in Packet : Prepare(c, p)) \/ Send(c)
  \/ Transmit \/ Shutdown \/ Configure

Spec == Init /\ [][Next]_vars

\* cores run, the hardware sends, and the tag unit serves every switch in turn
FairSpec ==
  /\ Spec
  /\ WF_vars(Transmit)
  /\ \A c \in Core : WF_vars(Send(c)) /\ SF_vars(Reserve(c))

-----------------------------------------------------------------------------
\* the n-th word the hardware will read
WordAt(n) == LET q == PlaceAt(n) IN mem[q.buf][q.idx]

\* Every word the doorbell announced is there: commands are whole, in pairs, and
\* belong together, across the ends of buffers too.
CommandsWhole ==
  \A n \in 0 .. (bell \div 2) - 1 :
    \E p \in Packet : WordAt(2 * n) = Cmd(p) /\ WordAt(2 * n + 1) = Ptr(p)

\* While nobody has the tag, software and hardware agree where the queue ends:
\* the hardware arrives at the register's place when it has read what was rung,
\* also after a send that failed.
EndsAgree == enabled /\ tag = None => PlaceAt(bell) = fau

\* No buffer is in two places or unaccounted for: each is in the pool, ahead in
\* the scratch memory of one core, in the chain from the hardware to the
\* register, or among those that lay between the two when a shutdown cut the
\* chain off; until a shutdown is repeated and the pool gets a buffer twice.
BuffersConserved ==
  LET ahead == {scratch[c] : c \in Core} \ {None}
      live  == IF enabled THEN Chain \cup {fau.buf} ELSE {}
  IN doubled \/
     /\ pool \cup ahead \cup live \cup lost = Buffer
     /\ pool \cap ahead = {} /\ pool \cap live = {} /\ ahead \cap live = {}
     /\ lost \cap (pool \cup ahead \cup live) = {}
     /\ \A c, d \in Core : scratch[c] # None /\ scratch[c] = scratch[d] => c = d

\* "the buffer will always end with 3 words": the case that splits a command
\* over two buffers does not arise.
EndsWithThree ==
  \A c \in Core : pc[c] = "finish" /\ ~Room(old[c].idx) => old[c].idx + 3 = HwSize

PacketOf(w) == IF \E p \in Packet : w = Cmd(p) THEN w[2] ELSE None
Queued == [n \in 1 .. bell \div 2 |-> PacketOf(WordAt(2 * n - 2))]

\* A core that starts a send gets out of it, sent or refused.
SendsEnd == \A c \in Core : pc[c] = "wait" ~> pc[c] = "idle"

\* Seen from outside the queue is first in, first out: nothing is sent twice,
\* skipped or overtaken; and every send comes to its end.
Fifo == INSTANCE PacketFifo WITH queue <- Queued
FifoServed == Fifo!Spec /\ SendsEnd

\* The queue is in order between any two steps of the cores and the hardware:
\* whole commands up to where both sides take its end to be, and every buffer
\* in one place or lost to a shutdown that cut the chain, through full pools,
\* failed sends and shutdowns at any moment nobody sends.
QueueSound ==
  /\ TypeOK /\ CommandsWhole /\ EndsAgree
  /\ BuffersConserved /\ EndsWithThree
=============================================================================
