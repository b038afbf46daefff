---------------------------- MODULE ProgramLists ----------------------------
(***************************************************************************)
(* The lists among the program data, as the parser reduces them element by *)
(* element (scpi.y): lists of numbers, that scpi_core_nrf_list() keeps in  *)
(* a pool until the line is complete, and lists of channels, that          *)
(* scpi_dev.c turns into a mask.  A mask is the set of its channels; the   *)
(* empty set stands for a number that did not become a channel.            *)
(***************************************************************************)
EXTENDS Integers, Sequences, FiniteSets, FiniteSetsExt

CONSTANTS
  Chunk,        \* NRF_CHUNK
  MaxLength,    \* bound on the length of a list
  Value,        \* the numbers in a list, in a unit of the client's choice
  MaxChan,      \* CGR101_MAX_CHAN
  Number        \* the numbers written for channels

ASSUME ChunkSize == Chunk \in Nat /\ Chunk > 1
ASSUME IntegerValues == Value \subseteq Int
ASSUME ListBounds == MaxLength \in Nat /\ MaxChan \in Nat /\ Number \subseteq Int

VARIABLES
  list,     \* the numbers of the list that is being read
  pool,     \* info->scpi->pool: "none", "held", or "moved" by realloc()
  mask,     \* the channels of the list that is being read
  named,    \* history: the numbers that were written for them
  failed    \* the function in which the program was aborted, "" if none

listVars == << list, pool, mask, named, failed >>

ListInit ==
  /\ list = << >> /\ pool = "none"
  /\ mask = {} /\ named = {} /\ failed = ""

Reading == list # << >> \/ named # {}
NothingRead == list' = << >> /\ mask' = {} /\ named' = {}

Fail(f) == failed' = f /\ UNCHANGED << list, pool, mask, named >>

----------------------------------------------------------------------------
(* The first number is a value like any other.                             *)
FirstNumber(v) ==
  /\ failed = "" /\ ~Reading
  /\ list' = << v >>
  /\ UNCHANGED << pool, mask, named, failed >>

(* scpi_core_nrf_list(): the second number starts a list, in a new pool;   *)
(* a full chunk is enlarged, and may move, but neither the pool nor the    *)
(* pointer to the values follows: both are of freed memory then, that the  *)
(* rest of the list is written to and read from.                           *)
NextNumber(v) ==
  /\ failed = "" /\ list # << >> /\ Len(list) < MaxLength
  /\ IF Len(list) = 1 /\ pool # "none"
     THEN Fail("scpi_core_nrf_list")
     ELSE /\ list' = Append(list, v)
          /\ \/ pool' = IF pool = "none" THEN "held" ELSE pool
             \/ Len(list) % Chunk = 0 /\ pool' = "moved"
          /\ UNCHANGED << mask, named, failed >>

----------------------------------------------------------------------------
(* scpi_dev_channel_num(): a number out of range stays a number.           *)
ChannelNum(n) == IF n \in 1..MaxChan THEN {n} ELSE {}

(* A seeded fault: the loop sets a bit after it has shifted it.            *)
RangeMask_ShiftsFirst(v1, v2) ==
  v1 \cup (Min(v1 \cup v2)+1 .. Max(v1 \cup v2))

(* scpi_dev_channel_range(): the loop ends before the higher channel.      *)
RangeMask(v1, v2) == v1 \cup (Min(v1 \cup v2) .. Max(v1 \cup v2) - 1)

(* scpi_dev_channel_range_append(): the first one has nothing to append to. *)
AppendMask(v, numbers) ==
  IF named # {} /\ (mask = {} \/ v = {})
  THEN Fail("scpi_dev_channel_range_append")
  ELSE /\ mask' = mask \cup v
       /\ named' = named \cup numbers
       /\ UNCHANGED << list, pool, failed >>

Channel(n) ==
  /\ failed = "" /\ list = << >>
  /\ AppendMask(ChannelNum(n), {n})

ChannelRange(n, m) ==
  /\ failed = "" /\ list = << >>
  /\ LET v1 == ChannelNum(n)
         v2 == ChannelNum(m)
     IN  IF v1 = {} \/ v2 = {} \/ v1 = v2
         THEN Fail("scpi_dev_channel_range")
         ELSE AppendMask(RangeMask(v1, v2), Min({n, m}) .. Max({n, m}))

(* The list is complete, and the command has its mask: scpi_dev_chan().    *)
ChannelsEnd ==
  /\ failed = "" /\ named # {}
  /\ IF mask = {} THEN Fail("scpi_dev_chan")
     ELSE NothingRead /\ UNCHANGED << pool, failed >>

----------------------------------------------------------------------------
(* The line is complete: scpi_core_top() frees the pool, for the second    *)
(* time if realloc() has done so, which free() may notice.                 *)
LineEnds ==
  /\ failed = "" /\ ~Reading /\ pool # "none"
  /\ \/ pool' = "none" /\ UNCHANGED failed
     \/ pool = "moved" /\ failed' = "scpi_core_top" /\ UNCHANGED pool
  /\ UNCHANGED << list, mask, named >>

(* The rest of the line is not understood: what was read is forgotten, but *)
(* scpi_core_top() is not reached.                                         *)
SyntaxError ==
  /\ failed = "" /\ Reading
  /\ NothingRead
  /\ UNCHANGED << pool, failed >>

ListNext ==
  \/ \E v \in Value : FirstNumber(v) \/ NextNumber(v)
  \/ \E n \in Number : Channel(n)
  \/ \E n, m \in Number : ChannelRange(n, m)
  \/ ChannelsEnd \/ LineEnds \/ SyntaxError

----------------------------------------------------------------------------
(* A list of channels selects no channel that was not named, and always    *)
(* the lowest of those that were (scpi_dev_channel_range, the append): a   *)
(* range that runs upwards loses its last channel, and no list more.       *)
MaskWithinNames ==
  failed = "" /\ mask # {} => mask \subseteq named /\ Min(named) \in mask
=============================================================================
