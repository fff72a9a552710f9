------------------------------- MODULE Disk --------------------------------
(***************************************************************************)
(* The block device: the driver in the kernel (device/disk.c), the disk    *)
(* emulator on the host (device/disk.py) and the serial line between them  *)
(* (UART2, device/PL011.c), character by character.                        *)
(*                                                                         *)
(* The driver puts a request on the line and waits, without a timeout, for *)
(* the characters of the reply; the emulator reads a line, serves it and   *)
(* answers with a line.  Either may find its FIFO full and wait.  The host *)
(* may write or read less than a block; the emulator then refuses.         *)
(*                                                                         *)
(* Addresses are those a signed word holds: for others the emulator's seek *)
(* fails and it ends.                                                      *)
(***************************************************************************)
EXTENDS Integers, Sequences

CONSTANTS
  BLOCK_NUM, BLOCK_LEN,   \* the disk (256 blocks of 4096 bytes)
  WORD_LEN,               \* bytes of an address or a size (4)
  DISK_RETRY,             \* attempts at a request (3)
  FIFO_LEN,               \* characters a UART holds in one direction (16)
  Addrs, Bytes,           \* addresses and bytes the file system uses
  Idle                    \* no call is in progress

\* The weight of byte i of a word, counted from 0: 256 to the power of i.
Weight[i \in 0..WORD_LEN] == IF i = 0 THEN 1 ELSE 256 * Weight[i - 1]

Calls == [op : {"WR"}, addr : Addrs, data : [1..BLOCK_LEN -> Bytes]]
         \cup [op : {"RD"}, addr : Addrs, data : {<<>>}]
         \cup [op : {"NUM", "LEN"}, addr : {0}, data : {<<>>}]

\* struct.pack('<l') takes words that are not negative with the sign bit clear.
ASSUME DiskAssumption ==
  /\ {BLOCK_NUM, BLOCK_LEN, WORD_LEN, DISK_RETRY, FIFO_LEN} \subseteq Nat \ {0}
  /\ \A w \in Addrs \cup {BLOCK_NUM, BLOCK_LEN} : w \in Nat /\ 2 * w < Weight[WORD_LEN]
  /\ Bytes \subseteq 0..255
  /\ Idle \notin Calls

VARIABLES
  call, ret,      \* the call in progress, and the result of the last one
  tries,          \* requests made for it that were refused: the loop's i
  tx,             \* characters of the request still to be put
  got,            \* characters of the reply so far
  toDisk, toHost, \* the two directions of the line
  line, ack,      \* the emulator: request read so far, reply still to be written
  image,          \* the disk image
  refused         \* history: how often the emulator has refused this call

vars == <<call, ret, tries, tx, got, toDisk, toHost, line, ack, image, refused>>
driver == <<call, ret, tries, tx, got>>

-----------------------------------------------------------------------------
(* Characters.  The driver writes capital hexadecimal digits, hexlify small *)
(* ones, and xtoi reads both.                                               *)

EOL   == "EOL"
SPACE == "SPACE"
Capital == <<"0","1","2","3","4","5","6","7","8","9","A","B","C","D","E","F">>
Small   == <<"0","1","2","3","4","5","6","7","8","9","a","b","c","d","e","f">>

hex(digits, bytes) ==
  [j \in 1..(2 * Len(bytes)) |->
     digits[1 + (IF j % 2 = 1 THEN bytes[(j + 1) \div 2] \div 16 ELSE bytes[j \div 2] % 16)]]

xtoi(c) == LET I == {i \in 1..16 : c \in {Capital[i], Small[i]}}
           IN  IF I = {} THEN -1 ELSE (CHOOSE i \in I : TRUE) - 1

\* (xtoi(h) << 4) | xtoi(l) as a byte, -1 having all bits set.
geth(h, l) == IF xtoi(l) = -1 THEN 255 ELSE ((xtoi(h) % 16) * 16) + xtoi(l)

data_geth(chars) == [i \in 1..(Len(chars) \div 2) |-> geth(chars[2 * i - 1], chars[2 * i])]

\* Words travel with their least significant byte first.
LowFirst(w) == [i \in 1..WORD_LEN |-> (w \div Weight[i - 1]) % 256]

Value(bytes) ==
  LET v[i \in 0..Len(bytes)] == IF i = 0 THEN 0 ELSE v[i - 1] + (bytes[i] * Weight[i - 1])
  IN  v[Len(bytes)]

-----------------------------------------------------------------------------
(* The driver *)

Command(op) == CASE op = "WR" -> <<1>> [] op = "RD" -> <<2>> [] op \in {"NUM", "LEN"} -> <<0>>

Request(c) ==
  hex(Capital, Command(c.op))
  \o (IF c.op \in {"WR", "RD"} THEN <<SPACE>> \o hex(Capital, LowFirst(c.addr)) ELSE <<>>)
  \o (IF c.op = "WR" THEN <<SPACE>> \o hex(Capital, c.data) ELSE <<>>)
  \o <<EOL>>

Accepted(g) == Len(g) >= 2 /\ geth(g[1], g[2]) = 0

\* How many characters the reply has, as far as its beginning tells.
ReplyLen_KeepsEOL(c, g) ==
  IF ~Accepted(g) THEN 3
  ELSE IF c.op = "WR" THEN 2
  ELSE IF c.op = "RD" THEN 4 + 2 * BLOCK_LEN ELSE 4 + 4 * WORD_LEN

ReplyLen(c, g) ==
  IF ~Accepted(g) \/ c.op = "WR" THEN 3
  ELSE IF c.op = "RD" THEN 4 + 2 * BLOCK_LEN ELSE 4 + 4 * WORD_LEN

\* What a call returns for an accepted reply.
Result(c, g) ==
  LET data == data_geth(SubSeq(g, 4, Len(g) - 1))
  IN  CASE c.op = "WR" -> <<0>>
        [] c.op = "RD" -> <<0, data>>
        [] c.op = "NUM" -> <<Value(SubSeq(data, 1, WORD_LEN))>>
        [] c.op = "LEN" -> <<Value(SubSeq(data, WORD_LEN + 1, 2 * WORD_LEN))>>

\* disk_wr, disk_rd, disk_get_block_num or disk_get_block_len is called.
Start(c) ==
  /\ call = Idle
  /\ call' = c /\ tx' = Request(c)
  /\ tries' = 0 /\ refused' = 0 /\ got' = <<>> /\ ret' = <<>>
  /\ UNCHANGED <<toDisk, toHost, line, ack, image>>

\* PL011_putc waits while the FIFO is full.
DriverPut ==
  /\ tx # <<>> /\ Len(toDisk) < FIFO_LEN
  /\ toDisk' = Append(toDisk, Head(tx)) /\ tx' = Tail(tx)
  /\ UNCHANGED <<call, ret, tries, got, toHost, line, ack, image, refused>>

\* PL011_getc waits while it is empty; g is the reply with the next character.
Arrived == IF toHost = <<>> THEN {} ELSE {Append(got, Head(toHost))}
DriverReads(g) ==
  /\ call # Idle /\ tx = <<>>
  /\ g \in Arrived /\ toHost' = Tail(toHost)
  /\ UNCHANGED <<toDisk, line, ack, image, refused>>

Return(r) ==
  /\ call' = Idle /\ ret' = r
  /\ got' = <<>> /\ tries' = 0 /\ UNCHANGED tx

DriverGet == \E g \in Arrived :
  /\ DriverReads(g)
  /\ Len(g) < ReplyLen(call, g)
  /\ got' = g /\ UNCHANGED <<call, ret, tries, tx>>

Succeed == \E g \in Arrived :
  /\ DriverReads(g)
  /\ Len(g) = ReplyLen(call, g) /\ Accepted(g)
  /\ Return(Result(call, g))

Retry_Uncounted == \E g \in Arrived :
  /\ DriverReads(g)
  /\ Len(g) = ReplyLen(call, g) /\ ~Accepted(g) /\ tries + 1 < DISK_RETRY
  /\ tx' = Request(call)
  /\ got' = <<>> /\ UNCHANGED <<call, ret, tries>>

Retry == \E g \in Arrived :
  /\ DriverReads(g)
  /\ Len(g) = ReplyLen(call, g) /\ ~Accepted(g) /\ tries + 1 < DISK_RETRY
  /\ tries' = tries + 1 /\ tx' = Request(call)
  /\ got' = <<>> /\ UNCHANGED <<call, ret>>

GiveUp_Early == \E g \in Arrived :
  /\ DriverReads(g)
  /\ Len(g) = ReplyLen(call, g) /\ ~Accepted(g) /\ tries + 2 >= DISK_RETRY
  /\ Return(<<-1>>)

GiveUp == \E g \in Arrived :
  /\ DriverReads(g)
  /\ Len(g) = ReplyLen(call, g) /\ ~Accepted(g) /\ tries + 1 >= DISK_RETRY
  /\ Return(<<-1>>)

-----------------------------------------------------------------------------
(* The emulator *)

\* req.split(' ')
split(l) ==
  LET f[i \in 0..Len(l)] ==
        IF i = 0 THEN << <<>> >>
        ELSE IF l[i] = SPACE THEN Append(f[i - 1], <<>>)
        ELSE [f[i - 1] EXCEPT ![Len(f[i - 1])] = Append(@, l[i])]
  IN  f[Len(l)]

EmulatorGet ==
  /\ ack = <<>> /\ toDisk # <<>> /\ Head(toDisk) # EOL
  /\ line' = Append(line, Head(toDisk)) /\ toDisk' = Tail(toDisk)
  /\ UNCHANGED <<driver, toHost, ack, image, refused>>

EmulatorPut ==
  /\ ack # <<>> /\ Len(toHost) < FIFO_LEN
  /\ toHost' = Append(toHost, Head(ack)) /\ ack' = Tail(ack)
  /\ UNCHANGED <<driver, toDisk, line, image, refused>>

\* A line is complete, with the fields req.
EmulatorReads(req) ==
  /\ ack = <<>> /\ toDisk # <<>> /\ Head(toDisk) = EOL
  /\ req = split(line)
  /\ line' = <<>> /\ toDisk' = Tail(toDisk)
  /\ UNCHANGED <<driver, toHost>>

REQ(n)    == hex(Capital, <<n>>)
ACK_OKAY  == <<"0", "0">>
ACK_FAIL  == <<"0", "1", EOL>>
Address(req) == Value(data_geth(req[2]))

Okay(data) == ack' = ACK_OKAY \o (IF data = <<>> THEN <<>> ELSE <<SPACE>> \o hex(Small, data)) \o <<EOL>>
              /\ UNCHANGED refused
Fail == ack' = ACK_FAIL /\ refused' = IF refused < DISK_RETRY THEN refused + 1 ELSE refused

\* The request is of a known kind, for an address on the disk and a whole block.
Served(req) ==
  \/ req[1] = REQ(0)
  \/ req[1] = REQ(1) /\ Address(req) < BLOCK_NUM /\ Len(data_geth(req[3])) = BLOCK_LEN
  \/ req[1] = REQ(2) /\ Address(req) < BLOCK_NUM

conf == \E req \in {split(line)} :
  /\ EmulatorReads(req) /\ req[1] = REQ(0)
  /\ Okay(LowFirst(BLOCK_NUM) \o LowFirst(BLOCK_LEN)) /\ UNCHANGED image

\* The host writes the first n bytes; the block is accepted if that is all.
wr == \E req \in {split(line)}, n \in 0..BLOCK_LEN :
  /\ EmulatorReads(req) /\ req[1] = REQ(1) /\ Served(req)
  /\ image' = [image EXCEPT ![Address(req)] =
       [i \in 1..BLOCK_LEN |-> IF i <= n THEN data_geth(req[3])[i] ELSE @[i]]]
  /\ IF n = BLOCK_LEN THEN Okay(<<>>) ELSE Fail

rd == \E req \in {split(line)} :
  /\ EmulatorReads(req) /\ req[1] = REQ(2) /\ Served(req)
  /\ Okay(image[Address(req)]) \/ Fail
  /\ UNCHANGED image

refuse == \E req \in {split(line)} :
  EmulatorReads(req) /\ ~Served(req) /\ Fail /\ UNCHANGED image

-----------------------------------------------------------------------------
(* Specification *)

Init ==
  /\ call = Idle /\ ret = <<>> /\ tries = 0 /\ refused = 0
  /\ tx = <<>> /\ got = <<>> /\ toDisk = <<>> /\ toHost = <<>> /\ line = <<>> /\ ack = <<>>
  /\ image = [a \in 0..(BLOCK_NUM - 1) |-> [i \in 1..BLOCK_LEN |-> 0]]

Driver   == DriverPut \/ DriverGet \/ Succeed \/ Retry \/ GiveUp
Emulator == EmulatorGet \/ EmulatorPut \/ conf \/ wr \/ rd \/ refuse

Next == (\E c \in Calls : Start(c)) \/ Driver \/ Emulator

\* The driver polls the line until it can go on, and the host runs the emulator.
Spec == Init /\ [][Next]_vars /\ WF_vars(Driver) /\ WF_vars(Emulator)

-----------------------------------------------------------------------------
(* Properties *)

\* Driver, line and emulator together are a block device: a call that reports
\* success has had its whole effect on its block and on no other, what a read
\* returns is what the block holds, and a call fails only after DISK_RETRY
\* refusals (disk.h 17: "r < 0 means failure", "it will (automatically) retry
\* for some fixed number of times").
Device == INSTANCE BlockDevice
ImplementsDevice == Device!Spec

\* Between two calls no character is under way in either direction, so that a
\* reply is never taken for the answer to a later request (disk_wr, disk_rd:
\* both branches read the end of the line).
InStep == call = Idle => toDisk \o toHost \o line \o ack \o tx \o got = <<>>

\* Every call returns, whatever the emulator refuses and however small the
\* FIFOs are: the two never wait for each other.
CallsReturn == (call # Idle) ~> (call = Idle)
=============================================================================
