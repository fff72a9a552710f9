---------------------------- MODULE BlockDevice ----------------------------
(***************************************************************************)
(* What the disk driver promises the file system: an array of blocks and   *)
(* one call at a time.  A call that succeeds has had its whole effect when *)
(* it returns; one that fails does so only after the disk has refused it   *)
(* DISK_RETRY times, and may have changed part of the block it was to      *)
(* write, but nothing else.                                                *)
(***************************************************************************)
EXTENDS Integers, Sequences

CONSTANTS
  BLOCK_NUM, BLOCK_LEN,   \* number of blocks, bytes of a block
  DISK_RETRY,             \* attempts at a request
  Idle                    \* no call is in progress

VARIABLES
  image,     \* the blocks
  call,      \* the call in progress: its kind, address and data
  ret,       \* what the last call returned, <<>> while one is in progress
  refused    \* how often the disk has refused the call in progress, up to DISK_RETRY

Valid(c) == c.addr < BLOCK_NUM

Init ==
  /\ image = [a \in 0..(BLOCK_NUM - 1) |-> [i \in 1..BLOCK_LEN |-> 0]]
  /\ call = Idle /\ ret = <<>> /\ refused = 0

Request ==
  /\ call = Idle /\ call' # Idle
  /\ ret' = <<>> /\ refused' = 0
  /\ UNCHANGED image

\* Every byte of the block is what it was or what it is to become.
Touch ==
  /\ call # Idle /\ call.op = "WR" /\ Valid(call)
  /\ \A a \in DOMAIN image :
       IF a = call.addr THEN \A i \in 1..BLOCK_LEN : image'[a][i] \in {image[a][i], call.data[i]}
       ELSE image'[a] = image[a]
  /\ UNCHANGED <<call, ret>>

Done(r) == call # Idle /\ call' = Idle /\ ret' = r /\ UNCHANGED <<image, refused>>

Written == /\ call.op = "WR" /\ Valid(call) /\ image[call.addr] = call.data /\ Done(<<0>>)
Read    == /\ call.op = "RD" /\ Valid(call) /\ Done(<<0, image[call.addr]>>)
Number  == call.op = "NUM" /\ Done(<<BLOCK_NUM>>)
Length  == call.op = "LEN" /\ Done(<<BLOCK_LEN>>)
Failed  == refused = DISK_RETRY /\ Done(<<-1>>)

\* A refusal may come with part of the block written.
Refuse ==
  /\ call # Idle /\ call.op \in {"WR", "RD"}
  /\ refused' = IF refused < DISK_RETRY THEN refused + 1 ELSE refused
  /\ UNCHANGED <<image, call, ret>> \/ Touch

Next ==
  \/ Request
  \/ Touch /\ UNCHANGED refused
  \/ Refuse
  \/ call # Idle /\ (Written \/ Read \/ Number \/ Length \/ Failed)

Spec == Init /\ [][Next]_<<image, call, ret, refused>>
=============================================================================
