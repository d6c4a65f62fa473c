---- MODULE FwLoadProofs ----
\* Proofs about the loading of firmware, for every size of packet and image, every file and
\* any number of polls.
EXTENDS FwLoad, SequenceTheorems, TLAPS

----------------------------------------------------------------------------
\* The packets of an image and the command lists: they cover the image, stay inside it, and
\* are in the right order.

\* The packets of an image cover it: one fewer would not do.
LEMMA PacketsCover ==
    ASSUME NEW len \in Nat \ {0}
    PROVE  /\ TotalPackets(len) \in Nat \ {0}
           /\ (TotalPackets(len) - 1) * Packet < len
           /\ len <= TotalPackets(len) * Packet
<1>. DEFINE q == len \div Packet
            r == len % Packet
<1>1. Packet \in Nat \ {0}
  BY FwAssumption
<1>2. q \in Nat /\ r \in 0..(Packet - 1) /\ len = Packet * q + r
  BY <1>1
<1>. HIDE DEF q, r
<1>3. q * Packet = Packet * q /\ (q + 1) * Packet = Packet * q + Packet /\ (q - 1) * Packet = Packet * q - Packet
  BY <1>1, <1>2
<1>4. CASE r = 0
  <2>1. q # 0
    BY <1>1, <1>2, <1>4
  <2>2. TotalPackets(len) = q
    BY <1>2, <1>4 DEF TotalPackets, q, r
  <2>. QED
    BY <1>1, <1>2, <1>3, <1>4, <2>1, <2>2
<1>5. CASE r # 0
  <2>1. TotalPackets(len) = q + 1
    BY <1>2, <1>5 DEF TotalPackets, q, r
  <2>. QED
    BY <1>1, <1>2, <1>3, <1>5, <2>1
<1>. QED
  BY <1>4, <1>5

\* A packet is not empty, and is inside the image.
LEMMA PacketInside ==
    ASSUME NEW len \in Nat \ {0}, NEW n \in 1..TotalPackets(len)
    PROVE  /\ CurrentSize(n, len) \in 1..Packet
           /\ (n - 1) * Packet \in Nat
           /\ (n - 1) * Packet + CurrentSize(n, len) <= len
<1>. DEFINE T == TotalPackets(len)
<1>1. Packet \in Nat \ {0}
  BY FwAssumption
<1>2. T \in Nat \ {0} /\ (T - 1) * Packet < len /\ len <= T * Packet
  BY PacketsCover
<1>. HIDE DEF T
<1>3. n \in Nat /\ n >= 1 /\ n <= T
  BY <1>2 DEF T
<1>4. (n - 1) * Packet \in Nat /\ T * Packet = (T - 1) * Packet + Packet /\ (T - 1) * Packet \in Nat
  BY <1>1, <1>2, <1>3
<1>5. CASE n = T
  <2>1. CurrentSize(n, len) = len - (T - 1) * Packet
    BY <1>5 DEF CurrentSize, T
  <2>. QED
    BY <1>1, <1>2, <1>4, <1>5, <2>1
<1>6. CASE n # T
  <2>1. CurrentSize(n, len) = Packet
    BY <1>6 DEF CurrentSize, T
  <2>2. n <= T - 1
    BY <1>2, <1>3, <1>6
  <2>3. (n - 1) * Packet + Packet = n * Packet /\ n * Packet <= (T - 1) * Packet
    BY <1>1, <1>2, <1>3, <2>2
  <2>. QED
    BY <1>1, <1>2, <1>4, <2>1, <2>3
<1>. QED
  BY <1>5, <1>6

\* Every byte of the image is in a packet.
LEMMA ByteInPacket ==
    ASSUME NEW len \in Nat \ {0}, NEW i \in 1..len
    PROVE  \E n \in 1..TotalPackets(len) :
               i \in ((n - 1) * Packet + 1)..((n - 1) * Packet + CurrentSize(n, len))
<1>. DEFINE T == TotalPackets(len)
            n == (i - 1) \div Packet + 1
<1>1. Packet \in Nat \ {0}
  BY FwAssumption
<1>2. T \in Nat \ {0} /\ (T - 1) * Packet < len /\ len <= T * Packet
  BY PacketsCover
<1>3. i - 1 \in Nat /\ i <= len
  OBVIOUS
<1>4. n \in Nat \ {0} /\ (n - 1) * Packet <= i - 1 /\ i - 1 < n * Packet
  <2>. DEFINE j == i - 1
  <2>1. j \in Nat
    BY <1>3
  <2>. HIDE DEF j
  <2>2. j \div Packet \in Nat /\ j % Packet \in 0..(Packet - 1) /\ j = Packet * (j \div Packet) + (j % Packet)
    BY <1>1, <2>1
  <2>3. n = j \div Packet + 1
    BY DEF j
  <2>. HIDE DEF n
  <2>4. (n - 1) * Packet = Packet * (j \div Packet) /\ n * Packet = Packet * (j \div Packet) + Packet
    BY <1>1, <2>2, <2>3
  <2>5. n \in Nat \ {0} /\ (n - 1) * Packet <= j /\ j < n * Packet
    BY <1>1, <2>1, <2>2, <2>3, <2>4
  <2>. QED
    BY <2>5 DEF j
<1>. HIDE DEF n, T
<1>5. n <= T
  <2>. SUFFICES ASSUME n >= T + 1
               PROVE  FALSE
    BY <1>2, <1>4
  <2>1. T * Packet <= (n - 1) * Packet
    BY <1>1, <1>2, <1>4
  <2>2. T * Packet \in Nat /\ (n - 1) * Packet \in Nat
    BY <1>1, <1>2, <1>4
  <2>. QED
    BY <1>2, <1>3, <1>4, <2>1, <2>2
<1>6. n \in 1..TotalPackets(len)
  BY <1>2, <1>4, <1>5 DEF T
<1>7. i <= (n - 1) * Packet + CurrentSize(n, len)
  <2>1. CASE n = T
    <3>1. CurrentSize(n, len) = len - (n - 1) * Packet
      BY <2>1 DEF CurrentSize, T
    <3>2. (n - 1) * Packet \in Nat
      BY <1>1, <1>4
    <3>. QED
      BY <1>3, <3>1, <3>2
  <2>2. CASE n # T
    <3>1. CurrentSize(n, len) = Packet
      BY <2>2 DEF CurrentSize, T
    <3>2. (n - 1) * Packet + Packet = n * Packet
      BY <1>1, <1>4
    <3>3. n * Packet \in Nat
      BY <1>1, <1>4
    <3>. QED
      BY <1>3, <1>4, <3>1, <3>2, <3>3
  <2>. QED
    BY <2>1, <2>2
<1>8. i >= (n - 1) * Packet + 1
  <2>1. (n - 1) * Packet \in Nat
    BY <1>1, <1>4
  <2>. QED
    BY <1>3, <1>4, <2>1
<1>9. CurrentSize(n, len) \in 1..Packet /\ (n - 1) * Packet \in Nat
  BY <1>6, PacketInside
<1>. QED
  BY <1>1, <1>6, <1>7, <1>8, <1>9

----------------------------------------------------------------------------
\* What is said about a list of commands.

Ops == {"wren", "read", "wrsr", "ready", "erase", "prog", "zalloc", "check",
        "pram", "finish", "version"}

Commands == [op : Ops, addr : Nat, size : Nat]

\* Each command is about a packet inside the image.
Inside(list, len) ==
    /\ list \in Seq(Commands)
    /\ \A k \in 1..Len(list) : list[k].size <= Packet /\ list[k].addr + list[k].size <= len

\* After a check there are only checks.
ChecksLast(list) ==
    \A j, k \in 1..Len(list) : j < k /\ list[j].op = "check" => list[k].op = "check"

Covers(list, op, i) == \E k \in 1..Len(list) : list[k].op = op /\ i \in Span(list[k])

\* An operation of the flash comes right after a WREN, which comes right after a wait.
Prepared(list) ==
    \A k \in 1..Len(list) : list[k].op \in {"erase", "prog"} =>
        /\ k >= 2 => list[k - 1].op = "wren"
        /\ k >= 3 => list[k - 2].op = "ready"

\* What a command is made of.
LEMMA CommandTypes ==
    ASSUME NEW len \in Nat \ {0}
    PROVE  /\ \A op \in Ops : Plain(op) \in Commands
           /\ \A op \in Ops : \A n \in 1..TotalPackets(len) :
                  /\ PacketCmd(op, n, len) \in Commands
                  /\ PacketCmd(op, n, len).op = op
                  /\ PacketCmd(op, n, len).addr = (n - 1) * Packet
                  /\ PacketCmd(op, n, len).size = CurrentSize(n, len)
<1>1. \A op \in Ops : Plain(op) \in Commands
  BY DEF Plain, Cmd, Commands
<1>2. ASSUME NEW op \in Ops, NEW n \in 1..TotalPackets(len)
      PROVE  /\ PacketCmd(op, n, len) \in Commands
             /\ PacketCmd(op, n, len).op = op
             /\ PacketCmd(op, n, len).addr = (n - 1) * Packet
             /\ PacketCmd(op, n, len).size = CurrentSize(n, len)
  <2>1. (n - 1) * Packet \in Nat /\ CurrentSize(n, len) \in Nat
    BY PacketInside, FwAssumption
  <2>. QED
    BY <2>1 DEF PacketCmd, Cmd, Commands
<1>. QED
  BY <1>1, <1>2

\* The packets of one operation are inside the image and cover it.
PacketsOf(list, op, len) ==
    /\ Inside(list, len) /\ Len(list) = TotalPackets(len)
    /\ \A k \in 1..Len(list) : list[k].op = op
    /\ \A i \in 1..len : Covers(list, op, i)

LEMMA PacketList ==
    ASSUME NEW len, len \in Nat \ {0}, NEW op, op \in Ops, NEW list,
           list = [n \in 1..TotalPackets(len) |-> PacketCmd(op, n, len)]
    PROVE  PacketsOf(list, op, len)
<1>. DEFINE T == TotalPackets(len)
<1>1. T \in Nat \ {0}
  BY PacketsCover
<1>2. list \in Seq(Commands) /\ Len(list) = T
  <2>1. \A n \in 1..T : PacketCmd(op, n, len) \in Commands
    BY CommandTypes
  <2>. DEFINE at(n) == PacketCmd(op, n, len)
  <2>2. list = [n \in 1..T |-> at(n)] /\ \A n \in 1..T : at(n) \in Commands
    BY <2>1
  <2>. HIDE DEF T, at
  <2>. QED
    BY ONLY <1>1, <2>2
<1>3. \A k \in 1..T : /\ list[k].op = op /\ list[k].addr = (k - 1) * Packet
                      /\ list[k].size = CurrentSize(k, len)
  BY CommandTypes
<1>4. \A k \in 1..T : CurrentSize(k, len) <= Packet /\ (k - 1) * Packet + CurrentSize(k, len) <= len
  BY PacketInside, FwAssumption
<1>. HIDE DEF T
<1>5. Inside(list, len)
  BY <1>2, <1>3, <1>4 DEF Inside
<1>6. ASSUME NEW i \in 1..len
      PROVE  Covers(list, op, i)
  <2>1. PICK n \in 1..T : i \in ((n - 1) * Packet + 1)..((n - 1) * Packet + CurrentSize(n, len))
    BY ByteInPacket DEF T
  <2>. QED
    BY <1>2, <1>3, <2>1 DEF Covers, Span
<1>. QED
  BY <1>2, <1>3, <1>5, <1>6 DEF PacketsOf, T

\* Two lists of commands inside the image make one.
Joins(ab, a, b, len) ==
    /\ Inside(ab, len)
    /\ Len(a) \in Nat /\ Len(b) \in Nat /\ Len(ab) = Len(a) + Len(b)
    /\ \A k \in 1..Len(a) : ab[k] = a[k]
    /\ \A k \in 1..Len(b) : ab[Len(a) + k] = b[k]

LEMMA ConcatInside ==
    ASSUME NEW len, len \in Nat, NEW a, Inside(a, len), NEW b, Inside(b, len),
           NEW ab, ab = a \o b
    PROVE  Joins(ab, a, b, len)
<1>1. /\ ab \in Seq(Commands) /\ Len(ab) = Len(a) + Len(b)
      /\ \A i \in 1..(Len(a) + Len(b)) : ab[i] = IF i <= Len(a) THEN a[i] ELSE b[i - Len(a)]
  BY ConcatProperties DEF Inside
<1>2. ASSUME NEW k \in 1..Len(ab)
      PROVE  ab[k].size <= Packet /\ ab[k].addr + ab[k].size <= len
  <2>. Len(a) \in Nat /\ Len(b) \in Nat
    BY DEF Inside
  <2>1. CASE k <= Len(a)
    BY <1>1, <2>1 DEF Inside
  <2>2. CASE k > Len(a)
    <3>1. k - Len(a) \in 1..Len(b) /\ ab[k] = b[k - Len(a)]
      BY <1>1, <2>2
    <3>. QED
      BY <3>1 DEF Inside
  <2>. QED
    BY <2>1, <2>2
<1>3. Len(a) \in Nat /\ Len(b) \in Nat
  BY DEF Inside
<1>4. Inside(ab, len)
  BY <1>1, <1>2 DEF Inside
<1>. QED
  BY <1>1, <1>3, <1>4 DEF Joins

\* A list of commands without an address.
LEMMA PlainInside ==
    ASSUME NEW len \in Nat \ {0}, NEW list \in Seq({Plain(op) : op \in Ops})
    PROVE  Inside(list, len)
<1>1. \A k \in 1..Len(list) : list[k] \in {Plain(op) : op \in Ops}
  OBVIOUS
<1>2. \A c \in {Plain(op) : op \in Ops} : c \in Commands /\ c.size = 0 /\ c.addr = 0
  BY CommandTypes DEF Plain, Cmd
<1>3. list \in Seq(Commands)
  BY <1>1, <1>2
<1>. QED
  BY <1>1, <1>2, <1>3, FwAssumption DEF Inside

\* What a download sends: the whole image and, after it, the start.
LEMMA DownloadList ==
    ASSUME NEW len \in Nat \ {0}
    PROVE  LET list == axs_Y15205_download(len)
           IN  /\ Inside(list, len) /\ list # <<>>
               /\ \A i \in 1..len : Covers(list, "pram", i)
               /\ \E k \in 1..Len(list) : list[k].op = "finish"
               /\ \A k \in 1..Len(list) : list[k].op \notin {"erase", "prog"}
<1>. DEFINE a == axs_download_write_pram(len)
            b == <<Plain("finish"), Plain("version")>>
            list == a \o b
<1>1. /\ Inside(a, len) /\ \A k \in 1..Len(a) : a[k].op = "pram"
      /\ \A i \in 1..len : Covers(a, "pram", i)
  <2>1. "pram" \in Ops
    BY DEF Ops
  <2>2. a = [n \in 1..TotalPackets(len) |-> PacketCmd("pram", n, len)]
    BY DEF axs_download_write_pram
  <2>. HIDE DEF a
  <2>3. PacketsOf(a, "pram", len)
    BY <2>1, <2>2, PacketList
  <2>. QED
    BY <2>3 DEF PacketsOf
<1>2. /\ Inside(b, len) /\ Len(b) = 2 /\ b[1].op = "finish" /\ b[2].op = "version"
  <2>1. b \in Seq({Plain(op) : op \in Ops})
    BY DEF Ops
  <2>. HIDE DEF b
  <2>2. Inside(b, len)
    BY <2>1, PlainInside
  <2>. QED
    BY <2>2 DEF b, Plain, Cmd
<1>. HIDE DEF a, b
<1>. HIDE DEF list
<1>l. list = a \o b
  BY DEF list
<1>3. /\ Inside(list, len) /\ Len(list) = Len(a) + 2 /\ Len(a) \in Nat
      /\ \A k \in 1..Len(a) : list[k] = a[k]
      /\ \A k \in 1..2 : list[Len(a) + k] = b[k]
  <2>1. Joins(list, a, b, len)
    BY <1>1, <1>2, <1>l, ConcatInside
  <2>. QED
    BY <1>2, <2>1 DEF Joins
<1>4. \A k \in 1..Len(a) : k \in 1..Len(list)
  BY <1>3
<1>5. \A i \in 1..len : Covers(list, "pram", i)
  BY <1>1, <1>3, <1>4 DEF Covers
<1>6. list[Len(a) + 1].op = "finish" /\ Len(a) + 1 \in 1..Len(list)
  BY <1>2, <1>3
<1>7. \A k \in 1..Len(list) : list[k].op \notin {"erase", "prog"}
  <2>. SUFFICES ASSUME NEW k \in 1..Len(list)
               PROVE  list[k].op \notin {"erase", "prog"}
    OBVIOUS
  <2>1. CASE k <= Len(a)
    BY <1>1, <1>3, <2>1
  <2>2. CASE k > Len(a)
    <3>1. k - Len(a) \in 1..2 /\ k = Len(a) + (k - Len(a))
      BY <1>3, <2>2
    <3>2. list[k] = b[k - Len(a)]
      BY <1>3, <3>1
    <3>. QED
      BY <1>2, <3>1, <3>2
  <2>. QED
    BY <1>3, <2>1, <2>2
<1>8. list # <<>>
  BY <1>3
<1>. QED
  BY <1>3, <1>5, <1>6, <1>7, <1>8 DEF list, a, b, axs_Y15205_download

\* What an upgrade sends: the packets of the image, and at the end a check of each.
LEMMA UpgradeList ==
    ASSUME NEW len \in Nat \ {0}
    PROVE  LET list == axs_Y15205_upgrade(len)
           IN  /\ Inside(list, len) /\ Len(list) >= 2
               /\ list[1].op = "wren" /\ list[2].op = "read"
               /\ ChecksLast(list) /\ Prepared(list)
               /\ \A i \in 1..len : Covers(list, "check", i)
<1>. DEFINE T == TotalPackets(len)
            p == axs_fwupg_flash_init \o axs_fwupg_flash_erase
            w == axs_fwupg_flash_write(len)
            d == [n \in 1..T |-> PacketCmd("check", n, len)]
            c == <<Plain("zalloc")>> \o d
            list == (p \o w) \o c
<1>1. T \in Nat \ {0}
  BY PacketsCover
<1>2. /\ Inside(p, len) /\ Len(p) = 9
      /\ p[1].op = "wren" /\ p[2].op = "read" /\ p[3].op = "wren" /\ p[4].op = "read"
      /\ p[5].op = "wrsr" /\ p[6].op = "ready" /\ p[7].op = "wren" /\ p[8].op = "erase"
      /\ p[9].op = "ready"
  <2>. DEFINE e == axs_fwupg_flash_init
              f == axs_fwupg_flash_erase
  <2>1. /\ e \in Seq({Plain(op) : op \in Ops}) /\ Len(e) = 6
        /\ e[1].op = "wren" /\ e[2].op = "read" /\ e[3].op = "wren" /\ e[4].op = "read"
        /\ e[5].op = "wrsr" /\ e[6].op = "ready"
    BY DEF axs_fwupg_flash_init, Ops, Plain, Cmd
  <2>2. /\ f \in Seq({Plain(op) : op \in Ops}) /\ Len(f) = 3
        /\ f[1].op = "wren" /\ f[2].op = "erase" /\ f[3].op = "ready"
    BY DEF axs_fwupg_flash_erase, Ops, Plain, Cmd
  <2>. HIDE DEF e, f
  <2>3. Inside(e, len) /\ Inside(f, len)
    BY <2>1, <2>2, PlainInside
  <2>4. p = e \o f
    BY DEF e, f
  <2>. HIDE DEF p
  <2>5. /\ Inside(p, len) /\ Len(p) = 6 + 3
        /\ \A k \in 1..6 : p[k] = e[k]
        /\ \A k \in 1..3 : p[6 + k] = f[k]
    <3>1. Joins(p, e, f, len)
      BY <2>3, <2>4, ConcatInside
    <3>. QED
      BY <2>1, <2>2, <3>1 DEF Joins
  <2>6. p[6 + 1] = f[1] /\ p[6 + 2] = f[2] /\ p[6 + 3] = f[3]
    BY <2>5
  <2>7. p[7] = f[1] /\ p[8] = f[2] /\ p[9] = f[3]
    BY <2>6
  <2>. QED
    BY <2>1, <2>2, <2>5, <2>7
<1>3. /\ Inside(w, len) /\ Len(w) = 3 * T
      /\ \A k \in 1..(3 * T) : /\ k % 3 = 1 => w[k].op = "wren"
                               /\ k % 3 = 2 => w[k].op = "prog"
                               /\ k % 3 = 0 => w[k].op = "ready"
  <2>1. \A k \in 1..(3 * T) :
            (k - 1) \div 3 + 1 \in 1..T /\ ((k - 1) % 3) + 1 \in 1..3
    BY <1>1
  <2>2. ASSUME NEW n \in 1..T, NEW j \in 1..3
        PROVE  /\ PacketWrite(n, len)[j] \in Commands
               /\ PacketWrite(n, len)[j].size <= Packet
               /\ PacketWrite(n, len)[j].addr + PacketWrite(n, len)[j].size <= len
               /\ j = 1 => PacketWrite(n, len)[j].op = "wren"
               /\ j = 2 => PacketWrite(n, len)[j].op = "prog"
               /\ j = 3 => PacketWrite(n, len)[j].op = "ready"
    <3>1. /\ CurrentSize(n, len) \in 1..Packet /\ (n - 1) * Packet \in Nat
          /\ (n - 1) * Packet + CurrentSize(n, len) <= len
      BY PacketInside
    <3>2. /\ PacketCmd("prog", n, len) \in Commands
          /\ PacketCmd("prog", n, len).op = "prog"
          /\ PacketCmd("prog", n, len).addr = (n - 1) * Packet
          /\ PacketCmd("prog", n, len).size = CurrentSize(n, len)
      BY CommandTypes DEF Ops
    <3>3. Plain("wren") \in Commands /\ Plain("ready") \in Commands
      BY CommandTypes DEF Ops
    <3>4. /\ Plain("wren").op = "wren" /\ Plain("wren").size = 0 /\ Plain("wren").addr = 0
          /\ Plain("ready").op = "ready" /\ Plain("ready").size = 0 /\ Plain("ready").addr = 0
      BY DEF Plain, Cmd
    <3>5. CASE j = 1
      BY <3>3, <3>4, <3>5, FwAssumption DEF PacketWrite
    <3>6. CASE j = 2
      BY <3>1, <3>2, <3>6, FwAssumption DEF PacketWrite
    <3>7. CASE j = 3
      BY <3>3, <3>4, <3>7, FwAssumption DEF PacketWrite
    <3>. QED
      BY <3>5, <3>6, <3>7
  <2>. DEFINE at(k) == PacketWrite((k - 1) \div 3 + 1, len)[((k - 1) % 3) + 1]
  <2>3. \A k \in 1..(3 * T) :
            at(k) \in Commands /\ at(k).size <= Packet /\ at(k).addr + at(k).size <= len
    BY <2>1, <2>2
  <2>4. w = [k \in 1..(3 * T) |-> at(k)]
    BY DEF axs_fwupg_flash_write, T
  <2>. HIDE DEF w, T, at
  <2>5. 3 * T \in Nat
    BY <1>1
  <2>6. w \in Seq(Commands) /\ Len(w) = 3 * T /\ \A k \in 1..(3 * T) : w[k] = at(k)
    BY <2>3, <2>4, <2>5
  <2>7. Inside(w, len)
    BY <2>3, <2>6 DEF Inside
  <2>8. ASSUME NEW k \in 1..(3 * T)
        PROVE  /\ k % 3 = 1 => w[k].op = "wren"
               /\ k % 3 = 2 => w[k].op = "prog"
               /\ k % 3 = 0 => w[k].op = "ready"
    <3>. DEFINE n == (k - 1) \div 3 + 1
                j == ((k - 1) % 3) + 1
    <3>1. n \in 1..T /\ j \in 1..3 /\ w[k] = PacketWrite(n, len)[j]
      BY <2>1, <2>6 DEF at
    <3>2. (k % 3 = 1 => j = 1) /\ (k % 3 = 2 => j = 2) /\ (k % 3 = 0 => j = 3)
      BY <2>5
    <3>. HIDE DEF n, j
    <3>3. /\ j = 1 => w[k].op = "wren"
          /\ j = 2 => w[k].op = "prog"
          /\ j = 3 => w[k].op = "ready"
      BY <2>2, <3>1
    <3>. QED
      BY <3>2, <3>3
  <2>. QED
    BY <2>6, <2>7, <2>8
<1>4. /\ Inside(d, len) /\ Len(d) = T /\ \A k \in 1..T : d[k].op = "check"
      /\ \A i \in 1..len : Covers(d, "check", i)
  <2>1. "check" \in Ops
    BY DEF Ops
  <2>2. d = [n \in 1..TotalPackets(len) |-> PacketCmd("check", n, len)]
    BY DEF T
  <2>. HIDE DEF d
  <2>3. PacketsOf(d, "check", len)
    BY <2>1, <2>2, PacketList
  <2>. QED
    BY <2>3 DEF PacketsOf, T
<1>. HIDE DEF p, w, d, T
<1>5. Inside(<<Plain("zalloc")>>, len) /\ Len(<<Plain("zalloc")>>) = 1 /\ Plain("zalloc").op = "zalloc"
  <2>1. <<Plain("zalloc")>> \in Seq({Plain(op) : op \in Ops})
    BY DEF Ops
  <2>2. Inside(<<Plain("zalloc")>>, len)
    BY <2>1, PlainInside
  <2>. QED
    BY <2>2 DEF Plain, Cmd
<1>6. /\ Inside(c, len) /\ Len(c) = T + 1 /\ c[1].op = "zalloc"
      /\ \A k \in 1..T : c[1 + k] = d[k]
  <2>. DEFINE z == <<Plain("zalloc")>>
  <2>1. z[1] = Plain("zalloc") /\ Len(z) = 1 /\ Inside(z, len) /\ c = z \o d
    BY <1>5 DEF c
  <2>. HIDE DEF z, c
  <2>2. /\ Inside(c, len) /\ Len(c) = 1 + T
        /\ \A k \in 1..1 : c[k] = z[k]
        /\ \A k \in 1..T : c[1 + k] = d[k]
    <3>1. Joins(c, z, d, len)
      BY <1>4, <2>1, ConcatInside
    <3>. QED
      BY <1>4, <2>1, <3>1 DEF Joins
  <2>. QED
    BY <1>1, <1>5, <2>1, <2>2
<1>. HIDE DEF c
<1>. DEFINE pw == p \o w
<1>p. pw = p \o w /\ list = pw \o c
  OBVIOUS
<1>. HIDE DEF pw, list
<1>7. /\ Inside(pw, len) /\ Len(pw) = 9 + 3 * T
      /\ \A k \in 1..9 : pw[k] = p[k]
      /\ \A k \in 1..(3 * T) : pw[9 + k] = w[k]
  <2>1. Joins(pw, p, w, len)
    BY <1>2, <1>3, <1>p, ConcatInside
  <2>. QED
    BY <1>2, <1>3, <2>1 DEF Joins
<1>8. /\ Inside(list, len) /\ Len(list) = 10 + 4 * T
      /\ \A k \in 1..(9 + 3 * T) : list[k] = pw[k]
      /\ \A k \in 1..(T + 1) : list[9 + 3 * T + k] = c[k]
  <2>1. /\ Inside(list, len) /\ Len(list) = (9 + 3 * T) + (T + 1)
        /\ \A k \in 1..(9 + 3 * T) : list[k] = pw[k]
        /\ \A k \in 1..(T + 1) : list[9 + 3 * T + k] = c[k]
    <3>1. Joins(list, pw, c, len)
      BY <1>6, <1>7, <1>p, ConcatInside
    <3>. QED
      BY <1>6, <1>7, <3>1 DEF Joins
  <2>. QED
    BY <1>1, <2>1
<1>9. /\ \A k \in 1..9 : list[k] = p[k]
      /\ \A k \in 1..(3 * T) : list[9 + k] = w[k]
      /\ list[10 + 3 * T].op = "zalloc"
      /\ \A k \in 1..T : list[10 + 3 * T + k] = d[k]
  <2>1. \A k \in 1..9 : k \in 1..(9 + 3 * T)
    BY <1>1
  <2>2. \A k \in 1..(3 * T) : 9 + k \in 1..(9 + 3 * T)
    BY <1>1
  <2>3. 1 \in 1..(T + 1) /\ 10 + 3 * T = 9 + 3 * T + 1
    BY <1>1
  <2>4. \A k \in 1..T : 1 + k \in 1..(T + 1) /\ 10 + 3 * T + k = 9 + 3 * T + (1 + k)
    BY <1>1
  <2>5. \A k \in 1..T : list[10 + 3 * T + k] = c[1 + k]
    BY <1>8, <2>4
  <2>6. list[10 + 3 * T] = c[1]
    BY <1>8, <2>3
  <2>. QED
    BY <1>6, <1>7, <1>8, <2>1, <2>2, <2>5, <2>6
\* Where a place of the list lies.
<1>a. ASSUME NEW k \in 1..Len(list)
      PROVE  \/ k \in 1..9
             \/ k - 9 \in 1..(3 * T) /\ k = 9 + (k - 9)
             \/ k = 10 + 3 * T
             \/ k - (10 + 3 * T) \in 1..T /\ k = 10 + 3 * T + (k - (10 + 3 * T))
  BY <1>1, <1>8
<1>10. \A k \in 1..Len(list) : list[k].op = "check" <=> k > 10 + 3 * T
  <2>. SUFFICES ASSUME NEW k \in 1..Len(list)
               PROVE  list[k].op = "check" <=> k > 10 + 3 * T
    OBVIOUS
  <2>1. CASE k \in 1..9
    <3>1. list[k].op # "check"
      BY <1>2, <1>9, <2>1
    <3>. QED
      BY <1>1, <2>1, <3>1
  <2>2. CASE k - 9 \in 1..(3 * T) /\ k = 9 + (k - 9)
    <3>1. list[k] = w[k - 9]
      BY <1>9, <2>2
    <3>2. (k - 9) % 3 \in {0, 1, 2}
      BY <2>2
    <3>. QED
      BY <1>1, <1>3, <2>2, <3>1, <3>2
  <2>3. CASE k = 10 + 3 * T
    BY <1>1, <1>9, <2>3
  <2>4. CASE k - (10 + 3 * T) \in 1..T /\ k = 10 + 3 * T + (k - (10 + 3 * T))
    <3>1. list[k] = d[k - (10 + 3 * T)]
      BY <1>9, <2>4
    <3>. QED
      BY <1>1, <1>4, <2>4, <3>1
  <2>. QED
    BY <1>a, <2>1, <2>2, <2>3, <2>4
<1>11. ChecksLast(list)
  BY <1>1, <1>8, <1>10 DEF ChecksLast
<1>12. Prepared(list)
  <2>. SUFFICES ASSUME NEW k \in 1..Len(list), list[k].op \in {"erase", "prog"}
               PROVE  k >= 3 /\ list[k - 1].op = "wren" /\ list[k - 2].op = "ready"
    BY DEF Prepared
  <2>1. CASE k \in 1..9
    <3>1. k = 8
      BY <1>2, <1>9, <2>1
    <3>. QED
      BY <1>2, <1>9, <3>1
  <2>2. CASE k - 9 \in 1..(3 * T) /\ k = 9 + (k - 9)
    <3>. DEFINE j == k - 9
    <3>1. j \in 1..(3 * T) /\ k = 9 + j /\ list[k] = w[j]
      BY <1>9, <2>2
    <3>. HIDE DEF j
    <3>2. j % 3 = 2
      <4>1. j % 3 \in {0, 1, 2}
        BY <3>1
      <4>. QED
        BY <1>3, <3>1, <4>1
    <3>3. j - 1 \in 1..(3 * T) /\ (j - 1) % 3 = 1 /\ k - 1 = 9 + (j - 1)
      BY <1>1, <3>1, <3>2
    <3>4. list[k - 1].op = "wren"
      <4>1. list[9 + (j - 1)] = w[j - 1]
        BY <1>9, <3>3
      <4>2. w[j - 1].op = "wren"
        BY <1>3, <3>3
      <4>. QED
        BY <3>3, <4>1, <4>2
    <3>5. CASE j = 2
      <4>1. k - 2 = 9
        BY <3>1, <3>5
      <4>. QED
        BY <1>2, <1>9, <3>1, <3>4, <3>5, <4>1
    <3>6. CASE j # 2
      <4>1. j - 2 \in 1..(3 * T) /\ (j - 2) % 3 = 0 /\ k - 2 = 9 + (j - 2)
        BY <1>1, <3>1, <3>2, <3>3, <3>6
      <4>2. list[k - 2].op = "ready"
        <5>1. list[9 + (j - 2)] = w[j - 2]
          BY <1>9, <4>1
        <5>2. w[j - 2].op = "ready"
          BY <1>3, <4>1
        <5>. QED
          BY <4>1, <5>1, <5>2
      <4>. QED
        BY <3>1, <3>4, <4>2
    <3>. QED
      BY <3>5, <3>6
  <2>3. CASE k = 10 + 3 * T
    BY <1>9, <2>3
  <2>4. CASE k - (10 + 3 * T) \in 1..T /\ k = 10 + 3 * T + (k - (10 + 3 * T))
    BY <1>4, <1>9, <2>4
  <2>. QED
    BY <1>a, <2>1, <2>2, <2>3, <2>4
<1>13. \A i \in 1..len : Covers(list, "check", i)
  <2>. SUFFICES ASSUME NEW i \in 1..len
               PROVE  Covers(list, "check", i)
    OBVIOUS
  <2>1. PICK k \in 1..T : d[k].op = "check" /\ i \in Span(d[k])
    BY <1>4 DEF Covers
  <2>2. 10 + 3 * T + k \in 1..Len(list) /\ list[10 + 3 * T + k] = d[k]
    BY <1>1, <1>8, <1>9
  <2>. QED
    BY <2>1, <2>2 DEF Covers
<1>14. axs_Y15205_upgrade(len) = list
  BY DEF axs_Y15205_upgrade, axs_fwupg_flash_read_check, list, p, w, c, d, T
<1>. QED
  BY <1>1, <1>2, <1>8, <1>9, <1>11, <1>12, <1>13, <1>14

----------------------------------------------------------------------------
\* What is left of a list when its first command has been sent.
LEMMA TailList ==
    ASSUME NEW len \in Nat, NEW list, Inside(list, len), list # <<>>
    PROVE  /\ Head(list) = list[1] /\ list[1] \in Commands /\ Len(list) \in Nat \ {0}
           /\ list[1].size <= Packet /\ list[1].addr + list[1].size <= len
           /\ Inside(Tail(list), len) /\ Len(Tail(list)) = Len(list) - 1
           /\ \A k \in 1..(Len(list) - 1) : Tail(list)[k] = list[k + 1]
<1>1. list \in Seq(Commands) /\ Len(list) \in Nat \ {0}
  BY DEF Inside
<1>2. Head(list) = list[1] /\ list[1] \in Commands /\ 1 \in 1..Len(list)
  BY <1>1
<1>3. /\ Tail(list) \in Seq(Commands) /\ Len(Tail(list)) = Len(list) - 1
      /\ \A k \in 1..(Len(list) - 1) : Tail(list)[k] = list[k + 1]
  BY <1>1
<1>4. \A k \in 1..(Len(list) - 1) : k + 1 \in 1..Len(list)
  BY <1>1
<1>5. Inside(Tail(list), len)
  BY <1>3, <1>4 DEF Inside
<1>. QED
  BY <1>1, <1>2, <1>3, <1>5 DEF Inside

\* A byte that was covered still is, unless the command that was sent covered it.
LEMMA TailCovers ==
    ASSUME NEW len \in Nat, NEW list, Inside(list, len), list # <<>>, NEW op, NEW i,
           Covers(list, op, i)
    PROVE  Covers(Tail(list), op, i) \/ (list[1].op = op /\ i \in Span(list[1]))
<1>1. PICK k \in 1..Len(list) : list[k].op = op /\ i \in Span(list[k])
  BY DEF Covers
<1>2. CASE k = 1
  BY <1>1, <1>2
<1>3. CASE k # 1
  <2>1. k - 1 \in 1..(Len(list) - 1) /\ (k - 1) + 1 = k
    BY <1>3, TailList
  <2>2. Tail(list)[k - 1] = list[k] /\ k - 1 \in 1..Len(Tail(list))
    BY <2>1, TailList
  <2>. QED
    BY <1>1, <2>2 DEF Covers
<1>. QED
  BY <1>2, <1>3

\* The order of the commands stays.
LEMMA TailChecks ==
    ASSUME NEW len \in Nat, NEW list, Inside(list, len), list # <<>>, ChecksLast(list)
    PROVE  ChecksLast(Tail(list))
<1>. SUFFICES ASSUME NEW j \in 1..(Len(list) - 1), NEW k \in 1..(Len(list) - 1), j < k,
                    Tail(list)[j].op = "check"
             PROVE  Tail(list)[k].op = "check"
  BY TailList DEF ChecksLast
<1>1. j + 1 \in 1..Len(list) /\ k + 1 \in 1..Len(list) /\ j + 1 < k + 1
  BY TailList
<1>2. Tail(list)[j] = list[j + 1] /\ Tail(list)[k] = list[k + 1]
  BY TailList
<1>. QED
  BY <1>1, <1>2 DEF ChecksLast

LEMMA TailPrepared ==
    ASSUME NEW len \in Nat, NEW list, Inside(list, len), list # <<>>, Prepared(list)
    PROVE  Prepared(Tail(list))
<1>. SUFFICES ASSUME NEW k \in 1..(Len(list) - 1), Tail(list)[k].op \in {"erase", "prog"}
             PROVE  /\ k >= 2 => Tail(list)[k - 1].op = "wren"
                    /\ k >= 3 => Tail(list)[k - 2].op = "ready"
  BY TailList DEF Prepared
<1>1. k + 1 \in 1..Len(list) /\ list[k + 1].op \in {"erase", "prog"}
  BY TailList
<1>2. ASSUME k >= 2
      PROVE  Tail(list)[k - 1].op = "wren"
  <2>1. k - 1 \in 1..(Len(list) - 1) /\ (k - 1) + 1 = (k + 1) - 1 /\ k + 1 >= 2
    BY <1>2, TailList
  <2>2. Tail(list)[k - 1] = list[(k + 1) - 1]
    BY <2>1, TailList
  <2>. QED
    BY <1>1, <2>1, <2>2 DEF Prepared
<1>3. ASSUME k >= 3
      PROVE  Tail(list)[k - 2].op = "ready"
  <2>1. k - 2 \in 1..(Len(list) - 1) /\ (k - 2) + 1 = (k + 1) - 2 /\ k + 1 >= 3
    BY <1>3, TailList
  <2>2. Tail(list)[k - 2] = list[(k + 1) - 2]
    BY <2>1, TailList
  <2>. QED
    BY <1>1, <2>1, <2>2 DEF Prepared
<1>. QED
  BY <1>2, <1>3


----------------------------------------------------------------------------
\* The inductive invariant, in parts.

\* The commands that are left are about the image at hand, and the place in the driver goes
\* with what it has still to do.
Control ==
    /\ Inside(todo, Len(image))
    /\ pc = "load" <=> todo # <<>>
    /\ pc # "idle" => Len(image) \in MinLen..MaxLen
    /\ pc = "select" => tries <= 1
    /\ pc = "reset" => kind = "upgrade"
    /\ ok => pc \in {"reset", "idle"}

Typed == TypeOK /\ Control

\* Each byte of the image is compared later, or the checks have begun and it was right.
Checked ==
    kind = "upgrade" /\ pc = "load" =>
        /\ ChecksLast(todo)
        /\ ~short => \A i \in 1..Len(image) :
               Covers(todo, "check", i) \/ (todo[1].op = "check" /\ flash[i] = image[i])

Verified == kind = "upgrade" /\ ok /\ ~short => Holds(flash)

\* Each byte of the image is still to be sent, or arrived; so is the start.
Arriving ==
    kind = "download" /\ pc = "load" =>
        /\ \A i \in 1..Len(image) : Covers(todo, "pram", i) \/ pram[i] = image[i]
        /\ mode = "pramapp" \/ \E k \in 1..Len(todo) : todo[k].op = "finish"

\* The flash is ready in time for the operation that is next, or next but one.
Ready ==
    /\ Prepared(todo)
    /\ Len(todo) >= 1 /\ todo[1].op \in {"erase", "prog"} => wel /\ ~busy
    /\ Len(todo) >= 2 /\ todo[2].op \in {"erase", "prog"} => ~busy

----------------------------------------------------------------------------
\* What a step that sends a command may do, whichever command it is.

Sent(op) == Proceed /\ todo[1].op = op

Commanded ==
    /\ pc = "load" /\ UNCHANGED <<kind, image, tries>>
    /\ Proceed \/ Abandon \/ (left' \in 0..Polls /\ UNCHANGED <<pc, ok, todo, chip, pram, mode, short>>)
    /\ Sent("wren") => busy' = busy /\ (~busy => wel')
    /\ Sent("ready") => ~busy /\ busy' = busy
    /\ Sent("check") =>
           /\ flash' = flash
           /\ ~short' => ~short /\ \A i \in Span(todo[1]) : flash[i] = image[i]
    /\ todo[1].op # "check" => short' = short
    /\ todo[1].op # "pram" => pram' = pram
    /\ Sent("pram") =>
           \A i \in 1..MaxLen : pram'[i] = IF i \in Span(todo[1]) THEN image[i] ELSE pram[i]
    /\ todo[1].op # "finish" => mode' = mode
    /\ Sent("finish") => mode' = "pramapp"

LEMMA ImageBytes ==
    ASSUME Typed
    PROVE  image \in Seq(Byte) /\ Len(image) \in Nat
<1>1. image \in Images \/ image = <<>>
  BY DEF Typed, TypeOK
<1>2. <<>> \in Seq(Byte)
  OBVIOUS
<1>3. image \in Seq(Byte)
  BY <1>1, <1>2, FwAssumption
<1>. QED
  BY <1>3

\* The command at hand.
LEMMA HeadCommand ==
    ASSUME Typed, pc = "load"
    PROVE  /\ Head(todo) = todo[1] /\ todo[1] \in Commands
           /\ todo[1].size <= Packet /\ todo[1].addr + todo[1].size <= Len(image)
           /\ Span(todo[1]) \subseteq 1..Len(image) /\ Len(image) <= MaxLen
           /\ Inside(Tail(todo), Len(image))
<1>1. Inside(todo, Len(image)) /\ todo # <<>> /\ Len(image) \in MinLen..MaxLen
  BY DEF Typed, Control
<1>2. /\ Head(todo) = todo[1] /\ todo[1] \in Commands
      /\ todo[1].size <= Packet /\ todo[1].addr + todo[1].size <= Len(image)
      /\ Inside(Tail(todo), Len(image))
  BY <1>1, ImageBytes, TailList
<1>3. todo[1].addr \in Nat /\ todo[1].size \in Nat
  BY <1>2 DEF Commands
<1>4. Span(todo[1]) \subseteq 1..Len(image)
  BY <1>2, <1>3, ImageBytes DEF Span
<1>. QED
  BY <1>1, <1>2, <1>4, FwAssumption

\* Which operation the command at hand is, and what it leaves alone.
LEMMA SendingOne ==
    ASSUME Typed, NEW op, Sending(op)
    PROVE  pc = "load" /\ todo[1].op = op /\ Head(todo) = todo[1]
BY HeadCommand DEF Sending

\* Every action that sends a command is of that form.
LEMMA CommandEffect ==
    ASSUME Typed,
           \/ SendWren \/ SendStatus \/ SendErase \/ SendProgram \/ SendRead
           \/ flash_is_ready \/ AllocCheck \/ CheckPacket
           \/ SendPram \/ axs_download_finish \/ axs_fwupg_get_ver_in_tp
    PROVE  Commanded
<1>1. CASE SendWren
  <2>1. pc = "load" /\ todo[1].op = "wren"
    BY <1>1, SendingOne DEF SendWren
  <2>2. Proceed \/ Abandon
    BY <1>1 DEF SendWren, Write
  <2>3. UNCHANGED <<kind, image, tries>> /\ UNCHANGED <<flash, busy, pram, mode, short>>
    BY <1>1 DEF SendWren, Kept
  <2>4. Proceed => ~Abandon
    BY DEF Proceed, Abandon
  <2>5. Proceed /\ ~busy => wel'
    BY <1>1, <2>4, Zenon DEF SendWren, Write
  <2>. QED
    BY <2>1, <2>2, <2>3, <2>5 DEF Commanded, Sent
<1>2. CASE SendStatus
  <2>1. pc = "load" /\ todo[1].op = "wrsr"
    BY <1>2, SendingOne DEF SendStatus
  <2>. QED
    BY <1>2, <2>1 DEF SendStatus, Operate, Write, Kept, Commanded, Sent
<1>3. CASE SendErase
  <2>1. pc = "load" /\ todo[1].op = "erase"
    BY <1>3, SendingOne DEF SendErase
  <2>. QED
    BY <1>3, <2>1 DEF SendErase, Operate, Write, Kept, Commanded, Sent
<1>4. CASE SendProgram
  <2>1. pc = "load" /\ todo[1].op = "prog"
    BY <1>4, SendingOne DEF SendProgram
  <2>. QED
    BY <1>4, <2>1 DEF SendProgram, Operate, Write, Kept, Commanded, Sent
<1>5. CASE SendRead
  <2>1. pc = "load" /\ todo[1].op = "read"
    BY <1>5, SendingOne DEF SendRead
  <2>. QED
    BY <1>5, <2>1 DEF SendRead, axs_write_bytes, Kept, chip, Commanded, Sent
<1>6. CASE flash_is_ready
  <2>1. pc = "load" /\ todo[1].op = "ready"
    BY <1>6, SendingOne DEF flash_is_ready
  <2>2. left \in 0..Polls /\ Polls \in Nat
    BY FwAssumption DEF Typed, TypeOK
  <2>3. Proceed \/ Abandon \/ (left' \in 0..Polls /\ UNCHANGED <<pc, ok, todo, chip, pram, mode, short>>)
    BY <1>6, <2>2 DEF flash_is_ready, chip
  <2>4. Proceed => ~busy
    <3>. SUFFICES ASSUME Proceed, busy
                 PROVE  FALSE
      OBVIOUS
    <3>1. Inside(todo, Len(image)) /\ todo # <<>> /\ Len(image) \in Nat
      BY <2>1, ImageBytes DEF Typed, Control
    <3>2. Len(Tail(todo)) = Len(todo) - 1 /\ Len(todo) \in Nat
      BY <3>1, TailList
    <3>3. todo' # todo
      BY <3>2 DEF Proceed
    <3>. QED
      BY <1>6, <3>3, <2>2 DEF flash_is_ready, Abandon, Proceed
  <2>. QED
    BY <1>6, <2>1, <2>3, <2>4 DEF flash_is_ready, chip, Kept, Commanded, Sent
<1>7. CASE AllocCheck
  <2>1. pc = "load" /\ todo[1].op = "zalloc"
    BY <1>7, SendingOne DEF AllocCheck
  <2>. QED
    BY <1>7, <2>1 DEF AllocCheck, axs_write_bytes, Kept, chip, Commanded, Sent
<1>8. CASE CheckPacket
  <2>1. pc = "load" /\ todo[1].op = "check" /\ Head(todo) = todo[1]
    BY <1>8, SendingOne DEF CheckPacket
  <2>2. UNCHANGED <<kind, image, tries>> /\ UNCHANGED <<chip, pram, mode>>
    BY <1>8 DEF CheckPacket, Kept
  <2>3. Proceed \/ Abandon
    BY <1>8 DEF CheckPacket
  <2>4. ASSUME Proceed, ~short'
        PROVE  ~short /\ \A i \in Span(todo[1]) : flash[i] = image[i]
    <3>. DEFINE c == todo[1]
    <3>1. c \in Commands /\ c.size <= Packet /\ Packet \in Nat
      BY <2>1, HeadCommand, FwAssumption
    <3>2. c.addr \in Nat /\ c.size \in Nat
      BY <3>1 DEF Commands
    <3>a. Proceed => ~Abandon
      <4>1. ok' = TRUE \/ todo' # <<>>
        BY <2>4 DEF Proceed
      <4>. QED
        BY <4>1 DEF Abandon
    <3>3. axs_write_bytes_read_bytes /\ Same(tmpbuf', c)
      BY <1>8, <2>1, <2>4, <3>a DEF CheckPacket
    <3>4. /\ tmpbuf' = [i \in 1..Packet |-> IF i <= c.size THEN flash[c.addr + i] ELSE tmpbuf[i]]
          /\ short' = short
      BY <2>1, <2>4, <3>3 DEF axs_write_bytes_read_bytes
    <3>. HIDE DEF c
    <3>5. ASSUME NEW i \in Span(c)
          PROVE  flash[i] = image[i]
      <4>1. i - c.addr \in 1..c.size /\ i - c.addr \in 1..Packet /\ c.addr + (i - c.addr) = i
        BY <3>1, <3>2 DEF Span
      <4>2. tmpbuf'[i - c.addr] = flash[i]
        BY <3>4, <4>1
      <4>3. tmpbuf'[i - c.addr] = image[i]
        BY <3>3, <4>1 DEF Same
      <4>. QED
        BY <4>2, <4>3
    <3>. QED
      BY <2>4, <3>4, <3>5 DEF c
  <2>. QED
    BY <2>1, <2>2, <2>3, <2>4 DEF Commanded, Sent, chip
<1>9. CASE SendPram
  <2>1. pc = "load" /\ todo[1].op = "pram" /\ Head(todo) = todo[1]
    BY <1>9, SendingOne DEF SendPram
  <2>2. Proceed \/ Abandon
    BY <1>9 DEF SendPram, Write
  <2>3. UNCHANGED <<kind, image, tries>> /\ UNCHANGED <<chip, mode, short>>
    BY <1>9 DEF SendPram, Kept
  <2>4. Proceed => ~Abandon
    BY DEF Proceed, Abandon
  <2>5. Proceed => pram' = [i \in 1..MaxLen |-> IF i \in Span(todo[1]) THEN image[i] ELSE pram[i]]
    BY <1>9, <2>1, <2>4 DEF SendPram, Write
  <2>. QED
    BY <2>1, <2>2, <2>3, <2>5 DEF Commanded, Sent, chip
<1>10. CASE axs_download_finish
  <2>1. pc = "load" /\ todo[1].op = "finish"
    BY <1>10, SendingOne DEF axs_download_finish
  <2>2. Proceed => ~Abandon
    BY DEF Proceed, Abandon
  <2>. QED
    BY <1>10, <2>1, <2>2 DEF axs_download_finish, Write, Kept, chip, Commanded, Sent
<1>11. CASE axs_fwupg_get_ver_in_tp
  <2>1. pc = "load" /\ todo[1].op = "version"
    BY <1>11, SendingOne DEF axs_fwupg_get_ver_in_tp
  <2>. QED
    BY <1>11, <2>1 DEF axs_fwupg_get_ver_in_tp, axs_write_bytes, Kept, chip, Commanded, Sent
<1>. QED
  BY <1>1, <1>2, <1>3, <1>4, <1>5, <1>6, <1>7, <1>8, <1>9, <1>10, <1>11

----------------------------------------------------------------------------
\* What a command leaves to do, and where.
LEMMA CommandControl ==
    ASSUME Typed, Commanded
    PROVE  Control'
<1>1. /\ Inside(todo, Len(image)) /\ Inside(Tail(todo), Len(image)) /\ todo # <<>>
      /\ Len(image) \in MinLen..MaxLen /\ image' = image /\ kind' = kind /\ tries' = tries
      /\ pc = "load" /\ ~ok /\ tries \in Nat
  BY HeadCommand DEF Commanded, Typed, Control, TypeOK
<1>2. Inside(<<>>, Len(image))
  BY <1>1 DEF Inside
<1>3. CASE Proceed
  BY <1>1, <1>3 DEF Proceed, Finished, Control
<1>4. CASE Abandon
  BY <1>1, <1>2, <1>4 DEF Abandon, Finished, Control
<1>5. CASE UNCHANGED <<pc, ok, todo>>
  BY <1>1, <1>5 DEF Control
<1>. QED
  BY <1>3, <1>4, <1>5 DEF Commanded

\* The buffers and the chips hold bytes, whatever a command does to them.
LEMMA CommandBytes ==
    ASSUME Typed,
           \/ SendWren \/ SendStatus \/ SendErase \/ SendProgram \/ SendRead
           \/ flash_is_ready \/ AllocCheck \/ CheckPacket
           \/ SendPram \/ axs_download_finish \/ axs_fwupg_get_ver_in_tp
    PROVE  /\ tmpbuf' \in [1..Packet -> Byte] /\ flash' \in Memory /\ pram' \in Memory
           /\ wel' \in BOOLEAN /\ busy' \in BOOLEAN /\ short' \in BOOLEAN
           /\ mode' \in {"app", "flash", "pram", "pramapp"}
<1>. DEFINE c == todo[1]
<1>1. /\ tmpbuf \in [1..Packet -> Byte] /\ flash \in Memory /\ pram \in Memory
      /\ wel \in BOOLEAN /\ busy \in BOOLEAN /\ short \in BOOLEAN
      /\ mode \in {"app", "flash", "pram", "pramapp"}
  BY DEF Typed, TypeOK
<1>2. /\ pc = "load" /\ Head(todo) = c /\ c \in Commands /\ c.addr \in Nat /\ c.size \in Nat
      /\ c.size <= Packet /\ c.addr + c.size <= Len(image) /\ Len(image) <= MaxLen
      /\ Span(c) \subseteq 1..Len(image)
  BY CommandEffect, HeadCommand DEF Commanded, Commands
<1>3. Packet \in Nat /\ MaxLen \in Nat /\ Len(image) \in Nat /\ \A i \in 1..Len(image) : image[i] \in Byte
  BY ImageBytes, FwAssumption
<1>. HIDE DEF c
<1>4. CASE SendWren
  BY <1>1, <1>4 DEF SendWren, Write
<1>5. CASE SendStatus
  BY <1>1, <1>5 DEF SendStatus, Operate, Write
<1>6. CASE SendErase
  <2>1. [i \in 1..MaxLen |-> 1] \in Memory
    BY DEF Memory, Byte
  <2>. QED
    BY <1>1, <1>6, <2>1 DEF SendErase, Operate, Write
<1>7. CASE SendProgram
  <2>. DEFINE after == [i \in 1..MaxLen |-> IF i \in Span(c) THEN flash[i] * image[i] ELSE flash[i]]
  <2>1. \A i \in 1..MaxLen : i \in Span(c) => flash[i] \in {0, 1} /\ image[i] \in {0, 1}
    BY <1>1, <1>2, <1>3 DEF Memory, Byte
  <2>2. \A i \in 1..MaxLen : (IF i \in Span(c) THEN flash[i] * image[i] ELSE flash[i]) \in Byte
    BY <1>1, <2>1 DEF Memory, Byte
  <2>3. after \in Memory
    BY <2>2 DEF Memory
  <2>. HIDE DEF after
  <2>4. Operate(after) /\ UNCHANGED <<tmpbuf, wel, pram, mode, short>>
    BY <1>2, <1>7 DEF SendProgram, Operate, after
  <2>. QED
    BY <1>1, <2>3, <2>4 DEF Operate, Write
<1>8. CASE SendRead
  BY <1>1, <1>8 DEF SendRead, chip
<1>9. CASE flash_is_ready
  BY <1>1, <1>9 DEF flash_is_ready, chip
<1>10. CASE AllocCheck
  BY <1>1, <1>10 DEF AllocCheck, chip, Byte
<1>11. CASE CheckPacket
  <2>1. UNCHANGED <<chip, pram, mode>>
    BY <1>11 DEF CheckPacket
  <2>2. CASE axs_write_bytes_read_bytes
    <3>1. \A i \in 1..Packet : i <= c.size => c.addr + i \in 1..MaxLen
      BY <1>2, <1>3
    <3>2. \A i \in 1..Packet : (IF i <= c.size THEN flash[c.addr + i] ELSE tmpbuf[i]) \in Byte
      BY <1>1, <3>1 DEF Memory
    <3>3. [i \in 1..Packet |-> IF i <= c.size THEN flash[c.addr + i] ELSE tmpbuf[i]] \in [1..Packet -> Byte]
      BY <3>2
    <3>. QED
      BY <1>1, <1>2, <2>1, <2>2, <3>3 DEF axs_write_bytes_read_bytes, chip
  <2>3. CASE UNCHANGED <<tmpbuf, short>>
    BY <1>1, <2>1, <2>3 DEF chip
  <2>. QED
    BY <1>11, <2>2, <2>3 DEF CheckPacket
<1>12. CASE SendPram
  <2>1. \A i \in 1..MaxLen : (IF i \in Span(c) THEN image[i] ELSE pram[i]) \in Byte
    BY <1>1, <1>2, <1>3 DEF Memory
  <2>2. [i \in 1..MaxLen |-> IF i \in Span(c) THEN image[i] ELSE pram[i]] \in Memory
    BY <2>1 DEF Memory
  <2>. QED
    BY <1>1, <1>2, <1>12, <2>2 DEF SendPram, Write, chip
<1>13. CASE axs_download_finish
  BY <1>1, <1>13 DEF axs_download_finish, Write, chip
<1>14. CASE axs_fwupg_get_ver_in_tp
  BY <1>1, <1>14 DEF axs_fwupg_get_ver_in_tp, chip
<1>. QED
  BY <1>4, <1>5, <1>6, <1>7, <1>8, <1>9, <1>10, <1>11, <1>12, <1>13, <1>14

\* A command keeps the types and the control.
LEMMA CommandTyped ==
    ASSUME Typed,
           \/ SendWren \/ SendStatus \/ SendErase \/ SendProgram \/ SendRead
           \/ flash_is_ready \/ AllocCheck \/ CheckPacket
           \/ SendPram \/ axs_download_finish \/ axs_fwupg_get_ver_in_tp
    PROVE  Typed'
<1>1. Commanded
  BY CommandEffect
<1>2. Control'
  BY <1>1, CommandControl
<1>3. UNCHANGED <<kind, image, tries>>
  BY <1>1 DEF Commanded
<1>4. InsideImage'
  BY <1>2 DEF Control, Inside, InsideImage
<1>5. pc' \in {"idle", "select", "load", "reset"} /\ ok' \in BOOLEAN /\ left' \in 0..Polls
  <2>p. Polls \in 0..Polls
    BY FwAssumption
  <2>f. \A b \in BOOLEAN : Finished(b) \in {"idle", "select", "reset"}
    BY DEF Finished
  <2>1. CASE Proceed
    BY <2>1, <2>p, <2>f DEF Proceed
  <2>2. CASE Abandon
    BY <2>2, <2>p, <2>f DEF Abandon
  <2>3. CASE left' \in 0..Polls /\ UNCHANGED <<pc, ok, todo, chip, pram, mode, short>>
    BY <2>3 DEF Typed, TypeOK
  <2>. QED
    BY <1>1, <2>1, <2>2, <2>3 DEF Commanded
<1>. QED
  BY <1>2, <1>3, <1>4, <1>5, CommandBytes DEF Typed, TypeOK

----------------------------------------------------------------------------
\* Types and control hold of every step.

LEMMA TypedInit == Init => Typed
<1>. SUFFICES ASSUME Init
             PROVE  Typed
  OBVIOUS
<1>1. Inside(<<>>, Len(image))
  BY DEF Init, Inside
<1>2. Packet \in Nat /\ MaxLen \in Nat /\ Polls \in 0..Polls
  BY FwAssumption
<1>3. TypeOK
  <2>1. flash \in Memory /\ pram \in Memory
    BY DEF Init, Memory, Byte
  <2>2. tmpbuf \in [1..Packet -> Byte]
    BY DEF Init, Byte
  <2>3. Len(todo) = 0
    BY DEF Init
  <2>4. InsideImage
    BY <2>3 DEF InsideImage
  <2>5. left \in 0..Polls /\ tries \in 0..2
    BY <1>2 DEF Init
  <2>6. /\ wel \in BOOLEAN /\ busy \in BOOLEAN /\ short \in BOOLEAN
        /\ ok \in BOOLEAN
    BY DEF Init
  <2>7. /\ pc \in {"idle", "select", "load", "reset"} /\ kind \in {"upgrade", "download"}
        /\ image \in Images \cup {<<>>} /\ mode \in {"app", "flash", "pram", "pramapp"}
    BY DEF Init
  <2>. QED
    BY <2>1, <2>2, <2>4, <2>5, <2>6, <2>7 DEF TypeOK
<1>4. Control
  BY <1>1 DEF Init, Control
<1>. QED
  BY <1>3, <1>4 DEF Typed

\* The actions of which a step is one.
LEMMA NextActions ==
    ASSUME [Next]_vars
    PROVE  \/ FwFile \/ selectFlash \/ selectPram \/ axs_reset_proc \/ FlashDone
           \/ \/ SendWren \/ SendStatus \/ SendErase \/ SendProgram \/ SendRead
              \/ flash_is_ready \/ AllocCheck \/ CheckPacket
              \/ SendPram \/ axs_download_finish \/ axs_fwupg_get_ver_in_tp
           \/ UNCHANGED vars
BY DEF Next, Driver

LEMMA TypedNext ==
    ASSUME Typed, [Next]_vars
    PROVE  Typed'
<1>1. CASE FwFile
  <2>1. /\ Inside(<<>>, Len(image')) /\ (pc' # "idle" => Len(image') \in MinLen..MaxLen)
        /\ todo = <<>> /\ pc = "idle"
    BY <1>1 DEF FwFile, Inside, Typed, Control
  <2>2. Control'
    BY <1>1, <2>1 DEF FwFile, Control
  <2>3. InsideImage'
    BY <2>2 DEF Control, Inside, InsideImage
  <2>4. TypeOK'
    <3>1. pc' \in {"idle", "select", "load", "reset"} /\ tries' \in 0..2
      BY <1>1 DEF FwFile
    <3>2. ok' \in BOOLEAN /\ short' \in BOOLEAN
      BY <1>1 DEF FwFile
    <3>3. kind' \in {"upgrade", "download"} /\ image' \in Images \cup {<<>>}
      BY <1>1 DEF FwFile
    <3>4. UNCHANGED <<left, tmpbuf, flash, wel, busy, pram, mode>>
      BY <1>1 DEF FwFile, chip
    <3>. QED
      BY <2>3, <3>1, <3>2, <3>3, <3>4 DEF Typed, TypeOK
  <2>. QED
    BY <2>2, <2>4 DEF Typed
<1>2. CASE selectFlash
  <2>1. /\ pc = "select" /\ kind = "upgrade" /\ Len(image) \in MinLen..MaxLen
        /\ Len(image) \in Nat \ {0} /\ tries \in 0..1 /\ ~ok /\ todo = <<>>
    BY <1>2, ImageBytes, FwAssumption DEF selectFlash, Typed, TypeOK, InsideImage, Control
  <2>2. Inside(axs_Y15205_upgrade(Len(image)), Len(image)) /\ axs_Y15205_upgrade(Len(image)) # <<>>
    BY <2>1, UpgradeList
  <2>3. \/ todo' = axs_Y15205_upgrade(Len(image)) /\ pc' = "load"
        \/ todo' = <<>> /\ pc' = "idle"
    BY <1>2, <2>1 DEF selectFlash
  <2>4. UNCHANGED <<kind, image, ok, left, tmpbuf, chip, pram, short>> /\ tries' = tries + 1
    BY <1>2 DEF selectFlash
  <2>5. Control'
    BY <2>1, <2>2, <2>3, <2>4 DEF Control, Typed
  <2>6. mode' \in {mode, "flash"}
    BY <1>2 DEF selectFlash
  <2>7. TypeOK'
    <3>1. InsideImage'
      BY <2>5 DEF Control, Inside, InsideImage
    <3>2. tries' \in 0..2 /\ pc' \in {"idle", "load"} /\ mode' \in {"app", "flash", "pram", "pramapp"}
      BY <2>1, <2>3, <2>4, <2>6 DEF Typed, TypeOK
    <3>. QED
      BY <2>4, <2>6, <3>1, <3>2 DEF Typed, TypeOK, chip
  <2>. QED
    BY <2>5, <2>7 DEF Typed
<1>3. CASE selectPram
  <2>1. /\ pc = "select" /\ kind = "download" /\ Len(image) \in MinLen..MaxLen
        /\ Len(image) \in Nat \ {0} /\ tries \in 0..1 /\ ~ok /\ todo = <<>>
    BY <1>3, ImageBytes, FwAssumption DEF selectPram, Typed, TypeOK, InsideImage, Control
  <2>2. Inside(axs_Y15205_download(Len(image)), Len(image)) /\ axs_Y15205_download(Len(image)) # <<>>
    BY <2>1, DownloadList
  <2>3. \/ todo' = axs_Y15205_download(Len(image)) /\ pc' = "load"
        \/ todo' = <<>> /\ pc' = "idle"
    BY <1>3, <2>1 DEF selectPram
  <2>4. UNCHANGED <<kind, image, ok, left, tmpbuf, chip, pram, short>> /\ tries' = tries + 1
    BY <1>3 DEF selectPram
  <2>5. Control'
    BY <2>1, <2>2, <2>3, <2>4 DEF Control, Typed
  <2>6. mode' \in {mode, "app", "pram"}
    BY <1>3 DEF selectPram
  <2>7. TypeOK'
    <3>1. InsideImage'
      BY <2>5 DEF Control, Inside, InsideImage
    <3>2. tries' \in 0..2 /\ pc' \in {"idle", "load"} /\ mode' \in {"app", "flash", "pram", "pramapp"}
      BY <2>1, <2>3, <2>4, <2>6 DEF Typed, TypeOK
    <3>. QED
      BY <2>4, <2>6, <3>1, <3>2 DEF Typed, TypeOK, chip
  <2>. QED
    BY <2>5, <2>7 DEF Typed
<1>4. CASE axs_reset_proc
  BY <1>4 DEF axs_reset_proc, driver, chip, Typed, TypeOK, InsideImage, Control
<1>5. CASE FlashDone
  BY <1>5 DEF FlashDone, driver, Typed, TypeOK, InsideImage, Control
<1>6. CASE \/ SendWren \/ SendStatus \/ SendErase \/ SendProgram \/ SendRead
           \/ flash_is_ready \/ AllocCheck \/ CheckPacket
           \/ SendPram \/ axs_download_finish \/ axs_fwupg_get_ver_in_tp
  BY <1>6, CommandTyped
<1>7. CASE UNCHANGED vars
  BY <1>7 DEF vars, driver, chip, Typed, TypeOK, InsideImage, Control
<1>. QED
  BY <1>1, <1>2, <1>3, <1>4, <1>5, <1>6, <1>7, NextActions

LEMMA TypedAlways == Spec => []Typed
<1>1. Typed /\ [Next]_vars => Typed'
  BY TypedNext
<1>. QED
  BY <1>1, TypedInit, PTL DEF Spec

\* The types of every variable, and every command inside the image, at all times.
THEOREM TypesHold == Spec => []TypeOK
<1>1. Typed => TypeOK
  BY DEF Typed
<1>. QED
  BY <1>1, TypedAlways, PTL

----------------------------------------------------------------------------
\* The flash is ready when an erase or a packet reaches it.

LEMMA ReadyTail ==
    ASSUME Typed, Ready, Commanded, Proceed
    PROVE  Ready'
<1>. DEFINE rest == Tail(todo)
<1>1. /\ Inside(todo, Len(image)) /\ todo # <<>> /\ Len(image) \in Nat /\ Prepared(todo)
      /\ todo' = rest
  BY ImageBytes DEF Ready, Typed, Control, Commanded, Proceed
<1>2. /\ Len(todo) \in Nat \ {0} /\ Len(rest) = Len(todo) - 1
      /\ \A k \in 1..(Len(todo) - 1) : rest[k] = todo[k + 1]
  BY <1>1, TailList
<1>3. Prepared(rest)
  BY <1>1, TailPrepared
<1>. HIDE DEF rest
<1>4. ASSUME Len(rest) >= 1, rest[1].op \in {"erase", "prog"}
      PROVE  wel' /\ ~busy'
  <2>1. Len(todo) >= 2 /\ rest[1] = todo[2] /\ 2 \in 1..Len(todo)
    BY <1>2, <1>4
  <2>2. todo[2 - 1].op = "wren" /\ ~busy
    BY <1>1, <1>4, <2>1 DEF Ready, Prepared
  <2>3. Sent("wren")
    BY <2>2 DEF Sent
  <2>4. ~busy' <=> ~busy
    BY <2>3 DEF Commanded
  <2>. QED
    BY <2>2, <2>3, <2>4, Zenon DEF Commanded
<1>5. ASSUME Len(rest) >= 2, rest[2].op \in {"erase", "prog"}
      PROVE  ~busy'
  <2>1. rest[2] = todo[3] /\ 3 \in 1..Len(todo)
    BY <1>2, <1>5
  <2>2. todo[3 - 2].op = "ready"
    BY <1>1, <1>5, <2>1 DEF Prepared
  <2>3. Sent("ready")
    BY <2>2 DEF Sent
  <2>. QED
    BY <2>3 DEF Commanded
<1>. QED
  BY <1>1, <1>3, <1>4, <1>5 DEF Ready

\* No operation is pending in a list that is empty.
LEMMA EmptyReady ==
    ASSUME todo = <<>>
    PROVE  Ready
<1>1. Len(todo) = 0
  OBVIOUS
<1>. QED
  BY <1>1 DEF Ready, Prepared

LEMMA ReadyNext ==
    ASSUME Typed, Ready, [Next]_vars
    PROVE  Ready'
<1>e. ASSUME todo' = <<>>
      PROVE  Ready'
  <2>1. Len(todo') = 0
    BY <1>e
  <2>. QED
    BY <2>1 DEF Ready, Prepared
<1>l. pc = "select" => Len(image) \in Nat \ {0}
  BY ImageBytes, FwAssumption DEF Typed, Control
<1>1. CASE FwFile
  <2>1. todo' = <<>>
    BY <1>1 DEF FwFile, Typed, Control
  <2>. QED
    BY <1>e, <2>1
<1>2. CASE selectFlash
  <2>1. CASE todo' = axs_Y15205_upgrade(Len(image))
    <3>1. /\ Len(todo') >= 2 /\ todo'[1].op = "wren" /\ todo'[2].op = "read" /\ Prepared(todo')
      BY <1>2, <1>l, <2>1, UpgradeList DEF selectFlash
    <3>. QED
      BY <3>1 DEF Ready
  <2>2. CASE todo' = todo
    BY <1>2, <1>e, <2>2 DEF selectFlash, Typed, Control
  <2>. QED
    BY <1>2, <2>1, <2>2 DEF selectFlash
<1>3. CASE selectPram
  <2>1. CASE todo' = axs_Y15205_download(Len(image))
    <3>1. /\ Inside(todo', Len(image))
          /\ \A k \in 1..Len(todo') : todo'[k].op \notin {"erase", "prog"}
      BY <1>3, <1>l, <2>1, DownloadList DEF selectPram
    <3>2. Len(todo') \in Nat
      BY <3>1 DEF Inside
    <3>. QED
      BY <3>1, <3>2 DEF Ready, Prepared
  <2>2. CASE todo' = todo
    BY <1>3, <1>e, <2>2 DEF selectPram, Typed, Control
  <2>. QED
    BY <1>3, <2>1, <2>2 DEF selectPram
<1>4. CASE axs_reset_proc
  BY <1>4 DEF axs_reset_proc, driver, chip, Ready
<1>5. CASE FlashDone
  BY <1>5 DEF FlashDone, driver, Ready
<1>6. CASE Commanded
  <2>1. CASE Proceed
    BY <1>6, <2>1, ReadyTail
  <2>2. CASE Abandon
    BY <1>e, <2>2 DEF Abandon
  <2>3. CASE UNCHANGED <<pc, ok, todo, chip, pram, mode, short>>
    BY <2>3 DEF chip, Ready
  <2>. QED
    BY <1>6, <2>1, <2>2, <2>3 DEF Commanded
<1>7. CASE UNCHANGED vars
  BY <1>7 DEF vars, driver, chip, Ready
<1>. QED
  BY <1>1, <1>2, <1>3, <1>4, <1>5, <1>6, <1>7, NextActions, CommandEffect

THEOREM FlashReady == Spec => []FlashFindsReady
<1>1. Init => Ready
  BY EmptyReady DEF Init
<1>2. Typed /\ Ready /\ [Next]_vars => Ready'
  BY ReadyNext
<1>3. Typed /\ Ready => FlashFindsReady
  <2>. SUFFICES ASSUME Typed, Ready, pc = "load", todo # <<>>, Head(todo).op \in {"erase", "prog"}
               PROVE  wel /\ ~busy
    BY DEF FlashFindsReady, Sending, Accepting
  <2>1. Head(todo) = todo[1] /\ Len(todo) >= 1
    BY HeadCommand, ImageBytes, TailList DEF Typed, Control
  <2>. QED
    BY <2>1 DEF Ready
<1>. QED
  BY <1>1, <1>2, <1>3, TypedAlways, PTL DEF Spec

----------------------------------------------------------------------------
\* An upgrade that reports success left the image in the flash.

LEMMA CheckedTail ==
    ASSUME Typed, Checked, Commanded, Proceed
    PROVE  Checked' /\ Verified'
<1>. SUFFICES ASSUME kind = "upgrade"
             PROVE  Checked' /\ Verified'
  BY DEF Commanded, Checked, Verified
<1>. DEFINE rest == Tail(todo)
<1>1. /\ Inside(todo, Len(image)) /\ todo # <<>> /\ Len(image) \in Nat /\ pc = "load"
      /\ todo' = rest /\ image' = image /\ ChecksLast(todo)
  BY ImageBytes DEF Checked, Typed, Control, Commanded, Proceed
<1>2. /\ Len(todo) \in Nat \ {0} /\ Len(rest) = Len(todo) - 1
      /\ \A k \in 1..(Len(todo) - 1) : rest[k] = todo[k + 1]
  BY <1>1, TailList
<1>3. ChecksLast(rest)
  BY <1>1, TailChecks
<1>4. \A i \in 1..Len(image) :
          Covers(todo, "check", i) => Covers(rest, "check", i) \/ (todo[1].op = "check" /\ i \in Span(todo[1]))
  BY <1>1, TailCovers
<1>. HIDE DEF rest
<1>5. CASE todo[1].op = "check"
  <2>1. Sent("check")
    BY <1>5 DEF Sent
  <2>2. flash' = flash /\ (~short' => ~short /\ \A i \in Span(todo[1]) : flash[i] = image[i])
    BY <2>1 DEF Commanded
  <2>3. ~short' => \A i \in 1..Len(image) : Covers(rest, "check", i) \/ flash'[i] = image[i]
    BY <1>1, <1>4, <2>2 DEF Checked
  <2>4. rest # <<>> => rest[1].op = "check"
    <3>. SUFFICES ASSUME rest # <<>>
                 PROVE  rest[1].op = "check"
      OBVIOUS
    <3>1. Len(rest) >= 1
      <4>1. rest \in Seq(Commands)
        BY <1>1, TailList DEF Inside, rest
      <4>. QED
        BY <4>1
    <3>2. rest[1] = todo[2] /\ 1 \in 1..Len(todo) /\ 2 \in 1..Len(todo)
      BY <1>2, <3>1
    <3>. QED
      BY <1>1, <1>5, <3>2 DEF ChecksLast
  <2>5. rest = <<>> => \A i \in 1..Len(image) : ~Covers(rest, "check", i)
    BY DEF Covers
  <2>6. pc' = "load" => rest # <<>>
    BY <1>1 DEF Proceed, Finished
  <2>7. ok' => rest = <<>>
    BY <1>1 DEF Proceed
  <2>8. Checked'
    BY <1>1, <1>3, <2>3, <2>4, <2>6 DEF Checked
  <2>9. Verified'
    BY <1>1, <2>3, <2>5, <2>7 DEF Verified, Holds
  <2>. QED
    BY <2>8, <2>9
<1>6. CASE todo[1].op # "check"
  <2>1. short' = short
    BY <1>6 DEF Commanded
  <2>2. ~short' => \A i \in 1..Len(image) : Covers(rest, "check", i)
    BY <1>1, <1>4, <1>6, <2>1 DEF Checked
  <2>3. Checked'
    BY <1>1, <1>3, <2>2 DEF Checked
  <2>4. rest = <<>> => \A i \in 1..Len(image) : ~Covers(rest, "check", i)
    BY DEF Covers
  <2>5. Verified'
    <3>. SUFFICES ASSUME ok', ~short', NEW i \in 1..Len(image)
                 PROVE  FALSE
      BY <1>1 DEF Verified, Holds
    <3>1. rest = <<>>
      BY <1>1 DEF Proceed
    <3>. QED
      BY <2>2, <2>4, <3>1
  <2>. QED
    BY <2>3, <2>5
<1>. QED
  BY <1>5, <1>6

LEMMA CheckedNext ==
    ASSUME Typed, Checked, Verified, [Next]_vars
    PROVE  Checked' /\ Verified'
<1>1. CASE FwFile
  BY <1>1 DEF FwFile, Checked, Verified
<1>2. CASE selectFlash
  <2>1. ~ok'
    BY <1>2 DEF selectFlash, Typed, Control
  <2>2. CASE pc' = "load" /\ todo' = axs_Y15205_upgrade(Len(image)) /\ image' = image
    <3>1. Len(image) \in Nat \ {0}
      BY <1>2, ImageBytes, FwAssumption DEF selectFlash, Typed, Control
    <3>2. ChecksLast(todo') /\ \A i \in 1..Len(image) : Covers(todo', "check", i)
      BY <2>2, <3>1, UpgradeList
    <3>. QED
      BY <2>1, <2>2, <3>2 DEF Checked, Verified
  <2>3. CASE pc' = "idle"
    BY <2>1, <2>3 DEF Checked, Verified
  <2>. QED
    BY <1>2, <2>2, <2>3 DEF selectFlash
<1>3. CASE selectPram
  BY <1>3 DEF selectPram, Checked, Verified
<1>4. CASE axs_reset_proc
  BY <1>4 DEF axs_reset_proc, driver, chip, Checked, Verified, Holds
<1>5. CASE FlashDone
  BY <1>5 DEF FlashDone, driver, Checked, Verified, Holds
<1>6. CASE Commanded
  <2>1. CASE Proceed
    BY <1>6, <2>1, CheckedTail
  <2>2. CASE Abandon
    <3>1. pc' # "load" /\ ~ok'
      BY <2>2 DEF Abandon, Finished
    <3>. QED
      BY <3>1 DEF Checked, Verified
  <2>3. CASE UNCHANGED <<pc, ok, todo, chip, pram, mode, short>>
    BY <1>6, <2>3 DEF Commanded, chip, Checked, Verified, Holds
  <2>. QED
    BY <1>6, <2>1, <2>2, <2>3 DEF Commanded
<1>7. CASE UNCHANGED vars
  BY <1>7 DEF vars, driver, chip, Checked, Verified, Holds
<1>. QED
  BY <1>1, <1>2, <1>3, <1>4, <1>5, <1>6, <1>7, NextActions, CommandEffect

THEOREM UpgradeChecks == Spec => []UpgradeVerified
<1>1. Init => Checked /\ Verified
  BY DEF Init, Checked, Verified
<1>2. Typed /\ (Checked /\ Verified) /\ [Next]_vars => (Checked /\ Verified)'
  BY CheckedNext
<1>3. Verified => UpgradeVerified
  BY DEF Verified, UpgradeVerified, Ended
<1>. QED
  BY <1>1, <1>2, <1>3, TypedAlways, PTL DEF Spec

----------------------------------------------------------------------------
\* A download that reports success left the whole image in the PRAM and started it.

Arrived == kind = "download" /\ ok => Holds(pram) /\ mode = "pramapp"

LEMMA ArrivingTail ==
    ASSUME Typed, Arriving, Commanded, Proceed
    PROVE  Arriving' /\ Arrived'
<1>. SUFFICES ASSUME kind = "download"
             PROVE  Arriving' /\ Arrived'
  BY DEF Commanded, Arriving, Arrived
<1>. DEFINE rest == Tail(todo)
<1>1. /\ Inside(todo, Len(image)) /\ todo # <<>> /\ Len(image) \in Nat /\ pc = "load"
      /\ todo' = rest /\ image' = image /\ Len(image) <= MaxLen
  BY HeadCommand, ImageBytes DEF Typed, Control, Commanded, Proceed
<1>2. /\ Len(todo) \in Nat \ {0} /\ Len(rest) = Len(todo) - 1
      /\ \A k \in 1..(Len(todo) - 1) : rest[k] = todo[k + 1]
  BY <1>1, TailList
<1>3. \A i \in 1..Len(image) :
          Covers(todo, "pram", i) => Covers(rest, "pram", i) \/ (todo[1].op = "pram" /\ i \in Span(todo[1]))
  BY <1>1, TailCovers
<1>. HIDE DEF rest
<1>4. ASSUME NEW i \in 1..Len(image)
      PROVE  Covers(rest, "pram", i) \/ pram'[i] = image[i]
  <2>1. Covers(todo, "pram", i) \/ pram[i] = image[i]
    BY <1>1 DEF Arriving
  <2>2. i \in 1..MaxLen
    BY <1>1, FwAssumption
  <2>3. CASE todo[1].op = "pram"
    <3>1. pram'[i] = IF i \in Span(todo[1]) THEN image[i] ELSE pram[i]
      BY <2>2, <2>3 DEF Commanded, Sent
    <3>. QED
      BY <1>3, <2>1, <3>1
  <2>4. CASE todo[1].op # "pram"
    <3>1. pram' = pram
      BY <2>4 DEF Commanded
    <3>. QED
      BY <1>3, <2>1, <2>4, <3>1
  <2>. QED
    BY <2>3, <2>4
<1>5. mode' = "pramapp" \/ \E k \in 1..Len(rest) : rest[k].op = "finish"
  <2>1. CASE todo[1].op = "finish"
    BY <2>1 DEF Commanded, Sent
  <2>2. CASE todo[1].op # "finish"
    <3>1. mode' = mode
      BY <2>2 DEF Commanded
    <3>2. CASE \E k \in 1..Len(todo) : todo[k].op = "finish"
      <4>1. PICK k \in 1..Len(todo) : todo[k].op = "finish"
        BY <3>2
      <4>2. k - 1 \in 1..Len(rest) /\ k - 1 \in 1..(Len(todo) - 1) /\ (k - 1) + 1 = k
        BY <1>2, <2>2, <4>1
      <4>3. rest[k - 1] = todo[k]
        BY <1>2, <4>2
      <4>. QED
        BY <4>1, <4>2, <4>3
    <3>3. CASE mode = "pramapp"
      BY <3>1, <3>3
    <3>. QED
      BY <1>1, <3>2, <3>3 DEF Arriving
  <2>. QED
    BY <2>1, <2>2
<1>6. Arriving'
  BY <1>1, <1>4, <1>5 DEF Arriving
<1>7. ASSUME ok'
      PROVE  Holds(pram)' /\ mode' = "pramapp"
  <2>1. rest = <<>>
    BY <1>1, <1>7 DEF Proceed
  <2>2. Len(rest) = 0
    BY <2>1
  <2>3. \A i \in 1..Len(image) : ~Covers(rest, "pram", i)
    BY <2>2 DEF Covers
  <2>4. mode' = "pramapp"
    BY <1>5, <2>2
  <2>5. \A i \in 1..Len(image) : pram'[i] = image[i]
    BY <1>4, <2>3
  <2>. QED
    BY <1>1, <2>4, <2>5 DEF Holds
<1>. QED
  BY <1>6, <1>7 DEF Arrived

LEMMA ArrivingNext ==
    ASSUME Typed, Arriving, Arrived, [Next]_vars
    PROVE  Arriving' /\ Arrived'
<1>1. CASE FwFile
  BY <1>1 DEF FwFile, Arriving, Arrived
<1>2. CASE selectFlash
  BY <1>2 DEF selectFlash, Arriving, Arrived
<1>3. CASE selectPram
  <2>1. ~ok'
    BY <1>3 DEF selectPram, Typed, Control
  <2>2. CASE pc' = "load" /\ todo' = axs_Y15205_download(Len(image)) /\ image' = image
    <3>1. Len(image) \in Nat \ {0}
      BY <1>3, ImageBytes, FwAssumption DEF selectPram, Typed, Control
    <3>2. /\ \A i \in 1..Len(image) : Covers(todo', "pram", i)
          /\ \E k \in 1..Len(todo') : todo'[k].op = "finish"
      BY <2>2, <3>1, DownloadList
    <3>. QED
      BY <2>1, <2>2, <3>2 DEF Arriving, Arrived
  <2>3. CASE pc' = "idle"
    BY <2>1, <2>3 DEF Arriving, Arrived
  <2>. QED
    BY <1>3, <2>2, <2>3 DEF selectPram
<1>4. CASE axs_reset_proc
  BY <1>4 DEF axs_reset_proc, driver, Typed, Control, Arriving, Arrived
<1>5. CASE FlashDone
  BY <1>5 DEF FlashDone, driver, Arriving, Arrived, Holds
<1>6. CASE Commanded
  <2>1. CASE Proceed
    BY <1>6, <2>1, ArrivingTail
  <2>2. CASE Abandon
    <3>1. pc' # "load" /\ ~ok'
      BY <2>2 DEF Abandon, Finished
    <3>. QED
      BY <3>1 DEF Arriving, Arrived
  <2>3. CASE UNCHANGED <<pc, ok, todo, chip, pram, mode, short>>
    BY <1>6, <2>3 DEF Commanded, Arriving, Arrived, Holds
  <2>. QED
    BY <1>6, <2>1, <2>2, <2>3 DEF Commanded
<1>7. CASE UNCHANGED vars
  BY <1>7 DEF vars, driver, Arriving, Arrived, Holds
<1>. QED
  BY <1>1, <1>2, <1>3, <1>4, <1>5, <1>6, <1>7, NextActions, CommandEffect

THEOREM DownloadArrives == Spec => []DownloadComplete
<1>1. Init => Arriving /\ Arrived
  BY DEF Init, Arriving, Arrived
<1>2. Typed /\ (Arriving /\ Arrived) /\ [Next]_vars => (Arriving /\ Arrived)'
  BY ArrivingNext
<1>3. Arrived => DownloadComplete
  BY DEF Arrived, DownloadComplete, Ended
<1>. QED
  BY <1>1, <1>2, <1>3, TypedAlways, PTL DEF Spec

====
