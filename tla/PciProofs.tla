----------------------------- MODULE PciProofs ------------------------------
(***************************************************************************)
(* Proofs about PCI: configuration accesses read and write the bytes that   *)
(* their caller names, for every numbering of buses, devices and functions, *)
(* every set of functions present and every access; and the scan of the bus *)
(* finds every function once.                                               *)
(***************************************************************************)
EXTENDS PciConfig, PciScan, FiniteSetTheorems, SequenceTheorems, TLAPS

(* The first byte of the space of a function, in the numbers written to     *)
(* 0xCF8.                                                                   *)
SpaceOf(a) == ((a.bus * DEVICES + a.device) * FUNCTIONS + a.function) * SPACE

LEMMA RowMajor ==
  ASSUME NEW R \in Nat \ {0}, NEW C \in Nat \ {0},
         NEW r \in 0 .. R - 1, NEW c \in 0 .. C - 1
  PROVE  R * C \in Nat \ {0} /\ r * C + c \in 0 .. R * C - 1
  <1>1. R * C \in Nat /\ r * C \in Nat  OBVIOUS
  <1>2. (r + 1) * C = r * C + C  OBVIOUS
  <1>3. R - (r + 1) \in Nat  OBVIOUS
  <1>4. R * C = (r + 1) * C + (R - (r + 1)) * C  BY <1>3
  <1>5. (R - (r + 1)) * C \in Nat  BY <1>3
  <1> QED  BY <1>1, <1>2, <1>4, <1>5

LEMMA SpaceFacts ==
  ASSUME NEW a \in Address
  PROVE  /\ SpaceOf(a) \in 0 .. BUSES * DEVICES * FUNCTIONS * SPACE - SPACE
         /\ SpaceOf(a) % 4 = 0
         /\ \A o : Cell(a.bus, a.device, a.function, o) = SpaceOf(a) + o
  <1> USE PciNumbers, PciAssumption
  <1>1. a.bus \in 0 .. BUSES - 1 /\ a.device \in 0 .. DEVICES - 1
        /\ a.function \in 0 .. FUNCTIONS - 1
    BY DEF Address, Bus, Device, Function
  <1> DEFINE d == a.bus * DEVICES + a.device
             f == d * FUNCTIONS + a.function
             D == BUSES * DEVICES
             F == D * FUNCTIONS
  <1>2. D \in Nat \ {0} /\ d \in 0 .. D - 1  BY <1>1, RowMajor
  <1> HIDE DEF d, D
  <1>3. F \in Nat \ {0} /\ f \in 0 .. F - 1  BY <1>1, <1>2, RowMajor
  <1> HIDE DEF f, F
  <1>4. F * SPACE \in Nat \ {0} /\ f * SPACE + (SPACE - 1) \in 0 .. F * SPACE - 1
    BY <1>3, RowMajor
  <1>5. SpaceOf(a) = f * SPACE  BY DEF SpaceOf, f, d
  <1>6. f * SPACE \in Nat /\ (f * SPACE) % 4 = 0
    <2>1. PICK k \in Nat : SPACE = 4 * k
      <3>1. SPACE = 4 * (SPACE \div 4) /\ SPACE \div 4 \in Nat  OBVIOUS
      <3> QED  BY <3>1
    <2>2. f * k \in Nat  BY <1>3
    <2>3. f * SPACE = 4 * (f * k)  BY <1>3, <2>1
    <2> DEFINE m == f * k
    <2> HIDE DEF m
    <2>4. m \in Nat => (4 * m) % 4 = 0 /\ 4 * m \in Nat  OBVIOUS
    <2> QED  BY <2>2, <2>3, <2>4 DEF m
  <1>7. BUSES * DEVICES * FUNCTIONS * SPACE = F * SPACE  BY DEF F, D
  <1> DEFINE x == f * SPACE
             X == F * SPACE
  <1> HIDE DEF x, X
  <1>8. x \in 0 .. X - SPACE  BY <1>4, <1>6 DEF x, X
  <1>9. \A o : Cell(a.bus, a.device, a.function, o) = SpaceOf(a) + o
    BY DEF Cell, SpaceOf
  <1> QED  BY <1>5, <1>6, <1>7, <1>8, <1>9 DEF x, X

(* Where an access is in its doubleword.                                    *)
LEMMA ShiftFacts ==
  ASSUME NEW w \in {1, 2, 4}, NEW offset \in Nat
  PROVE  /\ Shift(w, offset) \in 0 .. 3 /\ Shift(w, offset) + w <= 4
         /\ offset % w = 0 => Shift(w, offset) = offset % 4
  <1>1. CASE w = 1  BY <1>1 DEF Shift
  <1>2. CASE w = 2  BY <1>2 DEF Shift
  <1>3. CASE w = 4  BY <1>3 DEF Shift
  <1> QED  BY <1>1, <1>2, <1>3

LEMMA DoublewordFacts ==
  ASSUME NEW a \in Address, NEW offset \in Nat
  PROVE  /\ pci_config_address(a, offset)
              \in 0 .. BUSES * DEVICES * FUNCTIONS * SPACE - 4
         /\ pci_config_address(a, offset) % 4 = 0
         /\ offset < SPACE => pci_config_address(a, offset) = SpaceOf(a) + offset - (offset % 4)
  <1> USE PciAssumption
  <1> DEFINE byte == offset % SPACE
             low == byte - (byte % 4)
             base == SpaceOf(a)
             X == BUSES * DEVICES * FUNCTIONS * SPACE
  <1>1. byte \in 0 .. SPACE - 1 /\ (offset < SPACE => byte = offset)  OBVIOUS
  <1>2. base \in 0 .. X - SPACE /\ base % 4 = 0  BY SpaceFacts
  <1>3. pci_config_address(a, offset) = base + low
    <2>1. pci_config_address(a, offset) = Cell(a.bus, a.device, a.function, low)
      BY DEF pci_config_address
    <2> HIDE DEF low
    <2> QED  BY <2>1, SpaceFacts
  <1> HIDE DEF byte, base
  <1>4. low \in 0 .. SPACE - 4 /\ low % 4 = 0  BY <1>1
  <1>5. X \in Int
    <2>1. BUSES * DEVICES \in Nat  BY PciNumbers
    <2>2. BUSES * DEVICES * FUNCTIONS \in Nat  BY <2>1, PciNumbers
    <2> QED  BY <2>2
  <1>6. offset < SPACE => base + low = base + offset - (offset % 4)  BY <1>1, <1>2
  <1> HIDE DEF low, X
  <1>7. base + low \in 0 .. X - 4 /\ (base + low) % 4 = 0  BY <1>2, <1>4, <1>5
  <1> QED  BY <1>3, <1>6, <1>7 DEF X, base

-----------------------------------------------------------------------------
(* The accesses.                                                            *)

OpRecord == [pc : {"read", "write", "merge", "done"}, h : PciHandles,
             width : {1, 2, 4}, offset : Nat, value : Seq(Int), current : Seq(Int)]

(* What was read for a narrow write: the plain bytes of the doubleword,     *)
(* which nobody else changes.  A status byte may have been raised since.    *)
CurrentOK(o, c) ==
  /\ Len(o.current) = 4
  /\ \A i \in 1 .. 4 :
       select + i - 1 \in Cells /\ (select + i - 1) % SPACE \in Plain
         => o.current[i] = c[select + i - 1]

(* 0xCF8 holds the doubleword of the access from its first step to its      *)
(* last.                                                                    *)
ConfigAccessOK(o, c) ==
  /\ o \in OpRecord /\ o.h \in DOMAIN handle
  /\ select = pci_config_address(handle[o.h], o.offset)
  /\ o.pc \in {"write", "merge"} => o.value \in [1 .. o.width -> Nat]
  /\ o.pc = "merge" => CurrentOK(o, c)

PciInv ==
  /\ config \in [Cells -> Nat]
  /\ \A h \in DOMAIN handle : h \in PciHandles /\ handle[h] \in Opened
  /\ select \in 0 .. BUSES * DEVICES * FUNCTIONS * SPACE - 4 /\ select % 4 = 0
  /\ op # NoOp => ConfigAccessOK(op, config)

LEMMA CellsAreNumbers ==
  /\ Cells \subseteq Nat
  <1> SUFFICES ASSUME NEW n \in Cells PROVE n \in Nat  OBVIOUS
  <1>1. PICK f \in Present, o \in 0 .. SPACE - 1 : n = Cell(f[1], f[2], f[3], o)
    BY DEF Cells
  <1>2. f[1] \in Bus /\ f[2] \in Device /\ f[3] \in Function
    BY PciAssumption
  <1> DEFINE a == [segment |-> 0, bus |-> f[1], device |-> f[2], function |-> f[3]]
  <1>3. a \in Address /\ a.bus = f[1] /\ a.device = f[2] /\ a.function = f[3]
    BY <1>2 DEF Address
  <1> HIDE DEF a
  <1>4. n = SpaceOf(a) + o /\ SpaceOf(a) \in Nat
    BY <1>1, <1>3, SpaceFacts
  <1> QED  BY <1>4

LEMMA PcOfNoOp == op.pc # "none" => op # NoOp
  BY DEF NoOp

(* The doubleword read through 0xCFC.                                       *)
LEMMA InlFacts ==
  ASSUME PciInv
  PROVE  /\ inl \in Seq(Int) /\ Len(inl) = 4
         /\ \A i \in 1 .. 4 : inl[i] = Answer(select + i - 1)
  <1>1. \A i \in 1 .. 4 : inl[i] = Answer(select + i - 1)  BY DEF inl, Answer
  <1>2. \A i \in 1 .. 4 : Answer(select + i - 1) \in Int
    BY DEF Answer, Ones, PciInv
  <1>3. inl \in [1 .. 4 -> Int]  BY <1>1, <1>2 DEF inl
  <1> HIDE DEF inl
  <1>4. inl \in Seq(Int)  BY <1>3, SeqDef, Zenon
  <1>5. Len(inl) = 4  BY <1>3, <1>4, LenProperties
  <1> QED  BY <1>1, <1>4, <1>5

(* What a store of a doubleword does to a byte.                             *)
LEMMA OutlFacts ==
  ASSUME PciInv, NEW data, outl(data)
  PROVE  /\ DOMAIN config' = Cells
         /\ \A n \in Cells :
              /\ n - select \notin 0 .. 3 => config'[n] = config[n]
              /\ n - select \in 0 .. 3 /\ n % SPACE \in Plain
                   => config'[n] = data[n - select + 1]
              /\ n - select \in 0 .. 3 /\ n % SPACE \notin Plain
                   => \/ config'[n] = config[n]
                      \/ data[n - select + 1] = 1 /\ config'[n] = 0
  <1>1. DOMAIN config' = Cells  BY DEF outl
  <1>2. ASSUME NEW n \in Cells
        PROVE  /\ n - select \notin 0 .. 3 => config'[n] = config[n]
               /\ n - select \in 0 .. 3 /\ n % SPACE \in Plain
                    => config'[n] = data[n - select + 1]
               /\ n - select \in 0 .. 3 /\ n % SPACE \notin Plain
                    => \/ config'[n] = config[n]
                       \/ data[n - select + 1] = 1 /\ config'[n] = 0
    <2> DEFINE d == data[n - select + 1]
    <2>1. config'[n] = IF n - select \notin 0 .. 3 THEN config[n]
                       ELSE CASE n % SPACE \in Plain  -> d
                              [] n % SPACE \in Status -> IF d = 1 THEN 0 ELSE config[n]
                              [] OTHER                -> config[n]
      BY DEF outl
    <2>2. n % SPACE \in Plain => n % SPACE \notin Status  BY PciAssumption
    <2> DEFINE o == n % SPACE
    <2> HIDE DEF o, d
    <2> QED  BY <2>1, <2>2 DEF o, d
  <1> QED  BY <1>1, <1>2

(* A write of Nat bytes keeps the bytes of the space Nat.                   *)
LEMMA OutlTyped ==
  ASSUME PciInv, NEW data, outl(data),
         \A i \in 1 .. 4 : select + i - 1 \in Cells /\ (select + i - 1) % SPACE \in Plain
                             => data[i] \in Nat
  PROVE  config' \in [Cells -> Nat]
  <1>1. \A n \in Cells : config[n] \in Nat  BY DEF PciInv
  <1>2. select \in Nat  BY DEF PciInv
  <1>3. ASSUME NEW n \in Cells  PROVE config'[n] \in Nat
    <2>1. n \in Nat  BY CellsAreNumbers
    <2>2. CASE n - select \in 0 .. 3 /\ n % SPACE \in Plain
      <3> DEFINE i == n - select + 1
      <3>1. i \in 1 .. 4 /\ select + i - 1 = n  BY <1>2, <2>1, <2>2
      <3> HIDE DEF i
      <3>2. data[i] \in Nat  BY <2>2, <3>1
      <3> QED  BY <2>2, <3>2, OutlFacts DEF i
    <2>3. CASE ~(n - select \in 0 .. 3 /\ n % SPACE \in Plain)
      BY <1>1, <2>3, OutlFacts
    <2> QED  BY <2>2, <2>3
  <1>4. DOMAIN config' = Cells /\ config' = [n \in Cells |-> config'[n]]
    BY DEF outl
  <1> QED  BY <1>3, <1>4

(* The doubleword a narrow write stores.                                    *)
LEMMA MergeFacts ==
  ASSUME PciInv, op.pc = "merge"
  PROVE  /\ \A i \in 1 .. op.width : Skip + i \in 1 .. 4 /\ Merge[Skip + i] = op.value[i]
         /\ \A i \in 1 .. 4 : i - Skip \notin 1 .. op.width => Merge[i] = op.current[i]
         /\ \A i \in 1 .. 4 :
              select + i - 1 \in Cells /\ (select + i - 1) % SPACE \in Plain
                => Merge[i] \in Nat
  <1>1. /\ op \in OpRecord /\ op.value \in [1 .. op.width -> Nat] /\ CurrentOK(op, config)
        /\ op.width \in {1, 2, 4} /\ op.offset \in Nat
    BY PcOfNoOp DEF PciInv, ConfigAccessOK, OpRecord
  <1>2. Skip \in 0 .. 3 /\ Skip + op.width <= 4  BY <1>1, ShiftFacts DEF Skip
  <1> HIDE DEF Skip
  <1>3. \A i \in 1 .. 4 : Merge[i] = IF i - Skip \in 1 .. op.width THEN op.value[i - Skip]
                                     ELSE op.current[i]
    BY DEF Merge
  <1> HIDE DEF Merge
  <1>4. ASSUME NEW i \in 1 .. op.width
        PROVE  Skip + i \in 1 .. 4 /\ Merge[Skip + i] = op.value[i]
    <2>1. Skip + i \in 1 .. 4 /\ (Skip + i) - Skip = i  BY <1>1, <1>2
    <2> QED  BY <1>3, <2>1
  <1>5. ASSUME NEW i \in 1 .. 4,
               select + i - 1 \in Cells, (select + i - 1) % SPACE \in Plain
        PROVE  Merge[i] \in Nat
    <2>1. op.current[i] \in Nat
      <3>1. op.current[i] = config[select + i - 1]  BY <1>1, <1>5 DEF CurrentOK
      <3> QED  BY <1>5, <3>1 DEF PciInv
    <2>2. i - Skip \in 1 .. op.width => op.value[i - Skip] \in Nat  BY <1>1
    <2> QED  BY <1>3, <2>1, <2>2
  <1> QED  BY <1>3, <1>4, <1>5

LEMMA HandleStep ==
  ASSUME PciInv, NEW h \in PciHandles,
         \/ \E a \in Opened : uacpi_kernel_pci_device_open(h, a)
         \/ uacpi_kernel_pci_device_close(h)
  PROVE  PciInv'
  <1>1. op = NoOp /\ UNCHANGED <<config, select, op>>
    BY DEF uacpi_kernel_pci_device_open, uacpi_kernel_pci_device_close
  <1>2. \A k \in DOMAIN handle' : k \in PciHandles /\ handle'[k] \in Opened
    BY DEF uacpi_kernel_pci_device_open, uacpi_kernel_pci_device_close, PciInv
  <1> QED  BY <1>1, <1>2 DEF PciInv

LEMMA BeginStep ==
  ASSUME PciInv, NEW h \in PciHandles, NEW x \in Accesses, NEW k \in {"read", "write"},
         ConfigBegin(h, k, x)
  PROVE  PciInv'
  <1> DEFINE v == IF k = "read" THEN <<>> ELSE x.value
             o == [pc |-> k, h |-> h, width |-> x.width, offset |-> x.offset,
                   value |-> v, current |-> <<>>]
  <1>1. /\ h \in DOMAIN handle /\ select' = pci_config_address(handle[h], x.offset)
        /\ op' = o /\ UNCHANGED <<config, handle>>
    BY DEF ConfigBegin
  <1>2. /\ x.width \in {1, 2, 4} /\ x.width \in Nat /\ x.offset \in Nat
        /\ x.value \in [1 .. x.width -> Nat]
    BY PciAssumption
  <1>3. handle[h] \in Address  BY <1>1, PciAssumption DEF PciInv
  <1>4. /\ select' \in 0 .. BUSES * DEVICES * FUNCTIONS * SPACE - 4
        /\ select' % 4 = 0
    BY <1>1, <1>2, <1>3, DoublewordFacts
  <1>5. v \in Seq(Int) /\ <<>> \in Seq(Int)
    <2>1. x.value \in [1 .. x.width -> Int]  BY <1>2
    <2>2. x.value \in Seq(Int)  BY <1>2, <2>1, SeqDef, Zenon
    <2>3. <<>> \in Seq(Int)  BY EmptySeq
    <2> QED  BY <2>2, <2>3
  <1>6. k = "write" => v \in [1 .. x.width -> Nat]  BY <1>2
  <1> HIDE DEF v
  <1>7. /\ o \in OpRecord /\ o.h = h /\ o.offset = x.offset /\ o.pc = k
        /\ o.value = v /\ o.width = x.width
    BY <1>2, <1>5 DEF OpRecord
  <1> HIDE DEF o
  <1>8. (ConfigAccessOK(op, config))'
    BY <1>1, <1>6, <1>7 DEF ConfigAccessOK
  <1> QED  BY <1>1, <1>4, <1>8 DEF PciInv

(* A step of an access that keeps its address.                              *)
LEMMA ConfigStep ==
  ASSUME PciInv, op # NoOp, UNCHANGED <<handle, select>>, config' \in [Cells -> Nat],
         op' # NoOp => /\ op' \in OpRecord /\ op'.h = op.h /\ op'.offset = op.offset
                       /\ op'.pc \in {"write", "merge"} =>
                            op'.value \in [1 .. op'.width -> Nat]
                       /\ op'.pc = "merge" => (CurrentOK(op, config))'
  PROVE  PciInv'
  <1>1. op' # NoOp => (ConfigAccessOK(op, config))'
    BY DEF PciInv, ConfigAccessOK
  <1> QED  BY <1>1 DEF PciInv

LEMMA PciStep ==
  ASSUME PciInv, [PciNext]_pciVars
  PROVE  PciInv'
  <1>1. CASE pci_config_read
    <2> DEFINE v == SubSeq(inl, Skip + 1, Skip + op.width)
    <2>1. /\ op.pc = "read" /\ op' = [op EXCEPT !.pc = "done", !.value = v]
          /\ UNCHANGED <<config, handle, select>>
      BY <1>1 DEF pci_config_read
    <2>2. op \in OpRecord /\ op # NoOp /\ op.width \in {1, 2, 4} /\ op.offset \in Nat
      BY <2>1, PcOfNoOp DEF PciInv, ConfigAccessOK, OpRecord
    <2>3. v \in Seq(Int)
      <3>1. Skip \in 0 .. 3 /\ Skip + op.width <= 4  BY <2>2, ShiftFacts DEF Skip
      <3> HIDE DEF Skip
      <3>2. \A i \in Skip + 1 .. Skip + op.width : i \in 1 .. 4  BY <2>2, <3>1
      <3>3. \A i \in Skip + 1 .. Skip + op.width : inl[i] \in Int
        BY <3>2, InlFacts, ElementOfSeq
      <3> DEFINE m == Skip + 1
                 n == Skip + op.width
      <3>4. m \in Int /\ n \in Int  BY <2>2, <3>1
      <3> HIDE DEF m, n
      <3>5. SubSeq(inl, m, n) \in Seq(Int)  BY <3>3, <3>4, SubSeqProperties DEF m, n
      <3> QED  BY <3>5 DEF m, n
    <2> HIDE DEF v
    <2>4. op' \in OpRecord /\ op'.pc = "done" /\ op'.h = op.h /\ op'.offset = op.offset
      BY <2>1, <2>2, <2>3 DEF OpRecord
    <2> QED  BY <2>1, <2>2, <2>4, ConfigStep DEF PciInv
  <1>2. CASE pci_config_write32
    <2>1. /\ op.pc = "write" /\ op' = [op EXCEPT !.pc = "done"] /\ outl(op.value)
          /\ op.width = 4 /\ UNCHANGED <<handle, select>>
      BY <1>2 DEF pci_config_write32
    <2>2. op \in OpRecord /\ op # NoOp /\ op.value \in [1 .. 4 -> Nat]
      BY <2>1, PcOfNoOp DEF PciInv, ConfigAccessOK
    <2>3. config' \in [Cells -> Nat]  BY <2>1, <2>2, OutlTyped
    <2>4. op' \in OpRecord /\ op'.pc = "done" /\ op'.h = op.h /\ op'.offset = op.offset
      BY <2>1, <2>2 DEF OpRecord
    <2> QED  BY <2>1, <2>2, <2>3, <2>4, ConfigStep
  <1>3. CASE ReadForWrite
    <2>1. /\ op.pc = "write" /\ op' = [op EXCEPT !.pc = "merge", !.current = inl]
          /\ UNCHANGED <<config, handle, select>>
      BY <1>3 DEF ReadForWrite
    <2>2. op \in OpRecord /\ op # NoOp /\ op.value \in [1 .. op.width -> Nat]
      BY <2>1, PcOfNoOp DEF PciInv, ConfigAccessOK
    <2>3. inl \in Seq(Int)  BY InlFacts
    <2> DEFINE r == inl
    <2> HIDE DEF r
    <2>4. /\ op' \in OpRecord /\ op'.h = op.h /\ op'.offset = op.offset
          /\ op'.pc = "merge" /\ op'.value = op.value /\ op'.width = op.width
          /\ op'.current = r
      BY <2>1, <2>2, <2>3 DEF OpRecord, r
    <2>5. /\ Len(r) = 4 /\ \A i \in 1 .. 4 : select + i - 1 \in Cells =>
                                               r[i] = config[select + i - 1]
      BY InlFacts DEF Answer, r
    <2>6. (CurrentOK(op, config))'  BY <2>1, <2>4, <2>5 DEF CurrentOK
    <2> QED  BY <2>1, <2>2, <2>4, <2>6, ConfigStep DEF PciInv
  <1>4. CASE WriteBack
    <2>1. /\ op.pc = "merge" /\ op' = [op EXCEPT !.pc = "done"] /\ outl(Merge)
          /\ UNCHANGED <<handle, select>>
      BY <1>4 DEF WriteBack
    <2>2. op \in OpRecord /\ op # NoOp  BY <2>1, PcOfNoOp DEF PciInv, ConfigAccessOK
    <2>3. config' \in [Cells -> Nat]  BY <2>1, MergeFacts, OutlTyped
    <2>4. op' \in OpRecord /\ op'.pc = "done" /\ op'.h = op.h /\ op'.offset = op.offset
      BY <2>1, <2>2 DEF OpRecord
    <2> QED  BY <2>1, <2>2, <2>3, <2>4, ConfigStep
  <1>5. CASE ConfigReturn
    <2>1. op.pc = "done" /\ op' = NoOp /\ UNCHANGED <<config, handle, select>>
      BY <1>5 DEF ConfigReturn
    <2>2. op # NoOp  BY <2>1, PcOfNoOp
    <2> QED  BY <2>1, <2>2, ConfigStep DEF PciInv
  <1>6. ASSUME NEW n \in Cells, RaiseStatus(n)  PROVE PciInv'
    <2>1. /\ n % SPACE \in Status /\ config' = [config EXCEPT ![n] = 1]
          /\ UNCHANGED <<handle, select, op>>
      BY <1>6 DEF RaiseStatus
    <2>2. config' \in [Cells -> Nat]  BY <2>1 DEF PciInv
    <2>3. \A c \in Cells : c % SPACE \in Plain => config'[c] = config[c]
      BY <2>1, PciAssumption DEF PciInv
    <2>4. CurrentOK(op, config) => (CurrentOK(op, config))'
      BY <2>1, <2>3 DEF CurrentOK
    <2>5. ConfigAccessOK(op, config) => (ConfigAccessOK(op, config))'
      BY <2>1, <2>4 DEF ConfigAccessOK
    <2> QED  BY <2>1, <2>2, <2>5 DEF PciInv
  <1>7. CASE UNCHANGED pciVars
    BY <1>7 DEF pciVars, PciInv, ConfigAccessOK, CurrentOK
  <1> QED
    BY <1>1, <1>2, <1>3, <1>4, <1>5, <1>6, <1>7, HandleStep, BeginStep DEF PciNext

LEMMA PciCorrect == PciSpec => []PciInv
  <1>1. PciInit => PciInv
    <2> SUFFICES ASSUME PciInit PROVE PciInv  OBVIOUS
    <2>1. DOMAIN handle = {} /\ select = 0 /\ op = NoOp  BY DEF PciInit
    <2>2. config \in [Cells -> Nat]  BY CellsAreNumbers DEF PciInit
    <2>3. 0 \in 0 .. BUSES * DEVICES * FUNCTIONS * SPACE - 4
      <3> DEFINE a == [segment |-> 0, bus |-> 0, device |-> 0, function |-> 0]
      <3>1. a \in Address  BY PciNumbers DEF Address, Bus, Device, Function
      <3>2. /\ pci_config_address(a, 0) \in 0 .. BUSES * DEVICES * FUNCTIONS * SPACE - 4
        BY <3>1, DoublewordFacts
      <3>3. BUSES * DEVICES * FUNCTIONS * SPACE \in Int
        <4>1. BUSES * DEVICES \in Nat  BY PciNumbers
        <4>2. BUSES * DEVICES * FUNCTIONS \in Nat  BY <4>1, PciNumbers
        <4> QED  BY <4>2, PciAssumption
      <3> DEFINE X == BUSES * DEVICES * FUNCTIONS * SPACE
      <3> HIDE DEF X
      <3> QED  BY <3>2, <3>3 DEF X
    <2> QED  BY <2>1, <2>2, <2>3 DEF PciInv
  <1> QED  BY <1>1, PciStep, PTL DEF PciSpec

(* Whatever uACPI opens and asks for, 0xCF8 only ever holds the address of  *)
(* a doubleword of a function's space.                                      *)
THEOREM PciTypeCorrect == PciSpec => []PciTypeOK
  <1>1. PciInv => PciTypeOK
    <2> SUFFICES ASSUME PciInv PROVE PciTypeOK  OBVIOUS
    <2>1. op.pc \in {"none", "read", "write", "merge", "done"}
      BY DEF PciInv, ConfigAccessOK, OpRecord, NoOp
    <2> QED  BY <2>1 DEF PciInv, PciTypeOK
  <1> QED  BY <1>1, PciCorrect, PTL

(* The bytes named by an access that the mechanism can express are those    *)
(* the shift picks out of the doubleword 0xCF8 selects.                     *)
LEMMA NamedBytes ==
  ASSUME PciInv, op.pc \in {"read", "write", "merge"}, Expressible
  PROVE  /\ op.width \in {1, 2, 4} /\ Skip \in 0 .. 3 /\ Skip + op.width <= 4
         /\ op.width = 4 => Skip = 0
         /\ \A i \in 1 .. op.width : Named(i) = select + (Skip + i) - 1
  <1>1. /\ op \in OpRecord /\ op.h \in DOMAIN handle
        /\ select = pci_config_address(handle[op.h], op.offset)
    BY PcOfNoOp DEF PciInv, ConfigAccessOK
  <1>2. op.width \in {1, 2, 4} /\ op.offset \in Nat  BY <1>1 DEF OpRecord
  <1> DEFINE a == handle[op.h]
             w == op.width
  <1>3. a \in Address  BY <1>1, PciAssumption DEF PciInv
  <1>4. \A i \in 1 .. w : Named(i) \in Target  BY DEF Target
  <1>5. \A i \in 1 .. w : Named(i) # -1  BY <1>4 DEF Expressible
  <1>6. \A i \in 1 .. w : /\ op.offset + i - 1 < SPACE
                          /\ Named(i) = Cell(a.bus, a.device, a.function, op.offset + i - 1)
    BY <1>5 DEF Named
  <1>7. \A i \in 1 .. w : Named(i) = SpaceOf(a) + (op.offset + i - 1)
    BY <1>3, <1>6, SpaceFacts
  <1>8. op.offset < SPACE
    <2>1. 1 \in 1 .. w  BY <1>2
    <2> QED  BY <2>1, <1>2, <1>6, PciAssumption
  <1>9. select = SpaceOf(a) + op.offset - (op.offset % 4)
    BY <1>1, <1>2, <1>3, <1>8, DoublewordFacts
  <1>10. /\ Skip \in 0 .. 3 /\ Skip + w <= 4 /\ Skip = op.offset % 4
    BY <1>2, ShiftFacts DEF Skip, Expressible
  <1>11. SpaceOf(a) \in Int  BY <1>3, SpaceFacts
  <1>12. w = 4 => Skip = 0  BY <1>10, <1>2
  <1> HIDE DEF Skip, a
  <1>13. ASSUME NEW i \in 1 .. w  PROVE Named(i) = select + (Skip + i) - 1
    BY <1>2, <1>7, <1>9, <1>10, <1>11
  <1> QED  BY <1>2, <1>10, <1>12, <1>13

(* An aligned read returns the bytes at the offset, in order, and all ones  *)
(* from an absent device: pci_config_read8, 16 and 32 cut them out of the   *)
(* doubleword with the right shift, for every function and offset.          *)
THEOREM ReadsExactCorrect == PciSpec => ReadsExact
  <1>1. ASSUME PciInv, PciNext, ReadStep, Expressible, NEW i \in 1 .. op.width
        PROVE  op'.value[i] = Answer(Named(i))
    <2>1. op.pc = "read" /\ op'.pc = "done"  BY <1>1 DEF ReadStep
    <2>2. pci_config_read
      <3>1. op' # op  BY <2>1
      <3>2. op # NoOp  BY <2>1, PcOfNoOp
      <3> QED
        BY <1>1, <2>1, <3>1, <3>2 DEF PciNext, uacpi_kernel_pci_device_open,
           uacpi_kernel_pci_device_close, ConfigBegin, pci_config_write32,
           ReadForWrite, WriteBack, ConfigReturn, RaiseStatus
    <2>3. /\ op.width \in {1, 2, 4} /\ Skip \in 0 .. 3 /\ Skip + op.width <= 4
          /\ Named(i) = select + (Skip + i) - 1
      BY <1>1, <2>1, NamedBytes
    <2>4. op \in OpRecord  BY <1>1, <2>1, PcOfNoOp DEF PciInv, ConfigAccessOK
    <2> DEFINE m == Skip + 1
               n == Skip + op.width
    <2>5. op'.value = SubSeq(inl, m, n)
      BY <2>2, <2>4 DEF pci_config_read, OpRecord
    <2> HIDE DEF Skip
    <2>6. /\ m \in Int /\ n \in Int /\ i \in 1 .. n - m + 1 /\ m + i - 1 = Skip + i
          /\ Skip + i \in 1 .. 4
      BY <1>1, <2>3
    <2>7. \A j \in m .. n : j \in 1 .. 4  BY <2>3
    <2> HIDE DEF m, n
    <2>8. \A j \in m .. n : inl[j] \in Int
      BY <1>1, <2>7, InlFacts, ElementOfSeq
    <2>9. SubSeq(inl, m, n)[i] = inl[m + i - 1]
      BY <2>6, <2>8, SubSeqProperties
    <2>10. inl[Skip + i] = Answer(select + (Skip + i) - 1)
      BY <1>1, <2>6, InlFacts
    <2> QED  BY <2>3, <2>5, <2>6, <2>9, <2>10
  <1>2. PciInv /\ [PciNext]_pciVars =>
          [ReadStep /\ Expressible =>
             \A i \in 1 .. op.width : op'.value[i] = Answer(Named(i))]_pciVars
    BY <1>1
  <1> QED  BY <1>2, PciCorrect, PTL DEF PciSpec, ReadsExact

(* A store of a doubleword whose bytes at the access are the value of the   *)
(* access and whose other bytes are what was read before.                   *)
LEMMA StoreExact ==
  ASSUME PciInv, op.pc \in {"write", "merge"}, Expressible, NEW data, outl(data),
         \A i \in 1 .. op.width : data[Skip + i] = op.value[i],
         \A i \in 1 .. 4 : i - Skip \notin 1 .. op.width =>
           /\ data[i] = op.current[i]
           /\ select + i - 1 \in Cells /\ (select + i - 1) % SPACE \in Plain
                => op.current[i] = config[select + i - 1]
  PROVE  /\ \A i \in 1 .. op.width :
              Named(i) \in Cells /\ Named(i) % SPACE \in Plain
                => config'[Named(i)] = op.value[i]
         /\ \A n \in Cells \ Target : n % SPACE \in Plain => config'[n] = config[n]
         /\ \A n \in Cleared \ Target : op.current[n - select + 1] = 1
  <1>1. /\ op.width \in {1, 2, 4} /\ Skip \in 0 .. 3 /\ Skip + op.width <= 4
        /\ \A i \in 1 .. op.width : Named(i) = select + (Skip + i) - 1
    BY NamedBytes
  <1>2. select \in Nat  BY DEF PciInv
  <1> HIDE DEF Skip
  <1>3. ASSUME NEW i \in 1 .. op.width, Named(i) \in Cells, Named(i) % SPACE \in Plain
        PROVE  config'[Named(i)] = op.value[i]
    <2>1. Named(i) - select \in 0 .. 3 /\ Named(i) - select + 1 = Skip + i
      BY <1>1, <1>2
    <2>2. config'[Named(i)] = data[Named(i) - select + 1]
      BY <1>3, <2>1, OutlFacts
    <2> QED  BY <2>1, <2>2
  <1>4. ASSUME NEW n \in Cells \ Target, n - select \in 0 .. 3
        PROVE  /\ n - select + 1 \in 1 .. 4 /\ select + (n - select + 1) - 1 = n
               /\ (n - select + 1) - Skip \notin 1 .. op.width
    <2>1. n \in Nat  BY CellsAreNumbers
    <2> DEFINE j == (n - select + 1) - Skip
    <2>2. select + (Skip + j) - 1 = n  BY <1>1, <1>2, <2>1
    <2> HIDE DEF j
    <2>3. j \in 1 .. op.width => Named(j) = n  BY <1>1, <2>2
    <2>4. j \notin 1 .. op.width  BY <2>3 DEF Target
    <2> QED  BY <1>2, <1>4, <2>1, <2>4 DEF j
  <1>5. ASSUME NEW n \in Cells \ Target, n % SPACE \in Plain
        PROVE  config'[n] = config[n]
    <2>1. CASE n - select \notin 0 .. 3  BY <2>1, OutlFacts
    <2>2. CASE n - select \in 0 .. 3
      <3> DEFINE i == n - select + 1
      <3>1. i \in 1 .. 4 /\ select + i - 1 = n /\ i - Skip \notin 1 .. op.width
        BY <1>4, <2>2
      <3>2. config'[n] = data[i]  BY <1>5, <2>2, OutlFacts
      <3> HIDE DEF i
      <3>3. data[i] = op.current[i] /\ op.current[i] = config[select + i - 1]
        BY <1>5, <3>1
      <3> QED  BY <3>1, <3>2, <3>3
    <2> QED  BY <2>1, <2>2
  <1>6. ASSUME NEW n \in Cleared \ Target
        PROVE  op.current[n - select + 1] = 1
    <2>1. /\ n \in Cells \ Target /\ n % SPACE \in Status
          /\ config[n] = 1 /\ config'[n] = 0
      BY DEF Cleared
    <2>2. n % SPACE \notin Plain  BY <2>1, PciAssumption
    <2>3. n - select \in 0 .. 3 /\ data[n - select + 1] = 1
      BY <2>1, <2>2, OutlFacts
    <2> DEFINE i == n - select + 1
    <2>4. i \in 1 .. 4 /\ i - Skip \notin 1 .. op.width  BY <1>4, <2>1, <2>3
    <2> HIDE DEF i
    <2>5. data[i] = op.current[i]  BY <2>4
    <2> QED  BY <2>3, <2>5 DEF i
  <1> QED  BY <1>3, <1>5, <1>6

(* An aligned write stores its value, leaves the plain bytes next to it as  *)
(* they were and clears only the status it read as raised: the masks and    *)
(* shifts of pci_config_write8 and pci_config_write16 merge the right       *)
(* bytes, while the device goes on between the read and the write-back.     *)
THEOREM WritesExactCorrect == PciSpec => WritesExact
  <1>1. ASSUME PciInv, PciNext, WriteStep, Expressible
        PROVE  /\ \A i \in 1 .. op.width :
                    Named(i) \in Cells /\ Named(i) % SPACE \in Plain
                      => config'[Named(i)] = op.value[i]
               /\ \A n \in Cells \ Target : n % SPACE \in Plain => config'[n] = config[n]
               /\ \A n \in Cleared \ Target : op.current[n - select + 1] = 1
    <2>1. op.pc \in {"write", "merge"} /\ op'.pc = "done"  BY <1>1 DEF WriteStep
    <2>2. op \in OpRecord /\ op # NoOp
      BY <1>1, <2>1, PcOfNoOp DEF PciInv, ConfigAccessOK
    <2>3. pci_config_write32 \/ WriteBack
      <3>1. op' # op  BY <2>1
      <3>2. ~ReadForWrite  BY <2>1, <2>2 DEF ReadForWrite, OpRecord
      <3> QED
        BY <1>1, <2>1, <2>2, <3>1, <3>2 DEF PciNext, uacpi_kernel_pci_device_open,
           uacpi_kernel_pci_device_close, ConfigBegin, pci_config_read,
           ConfigReturn, RaiseStatus
    <2>4. /\ op.width \in {1, 2, 4} /\ Skip \in 0 .. 3
          /\ op.width = 4 => Skip = 0
      BY <1>1, <2>1, NamedBytes
    <2> HIDE DEF Skip
    <2>5. CASE pci_config_write32
      <3>1. op.width = 4 /\ Skip = 0 /\ outl(op.value)
        BY <2>4, <2>5 DEF pci_config_write32
      <3>2. \A i \in 1 .. 4 : 0 + i = i /\ i - 0 \in 1 .. 4  OBVIOUS
      <3>3. /\ \A i \in 1 .. op.width : op.value[Skip + i] = op.value[i]
            /\ \A i \in 1 .. 4 : ~(i - Skip \notin 1 .. op.width)
        BY <3>1, <3>2
      <3> QED  BY <1>1, <2>1, <3>1, <3>3, StoreExact
    <2>6. CASE WriteBack
      <3>1. op.pc = "merge" /\ outl(Merge)  BY <2>6 DEF WriteBack
      <3>2. /\ \A i \in 1 .. op.width : Merge[Skip + i] = op.value[i]
            /\ \A i \in 1 .. 4 : i - Skip \notin 1 .. op.width => Merge[i] = op.current[i]
        BY <1>1, <3>1, MergeFacts
      <3>3. CurrentOK(op, config)
        BY <1>1, <2>2, <3>1 DEF PciInv, ConfigAccessOK
      <3> QED  BY <1>1, <2>1, <3>1, <3>2, <3>3, StoreExact DEF CurrentOK
    <2> QED  BY <2>3, <2>5, <2>6
  <1>2. PciInv /\ [PciNext]_pciVars =>
          [WriteStep /\ Expressible =>
             /\ \A i \in 1 .. op.width :
                  Named(i) \in Cells /\ Named(i) % SPACE \in Plain
                    => config'[Named(i)] = op.value[i]
             /\ \A n \in Cells \ Target : n % SPACE \in Plain => config'[n] = config[n]
             /\ \A n \in Cleared \ Target : op.current[n - select + 1] = 1]_pciVars
    BY <1>1
  <1> QED  BY <1>2, PciCorrect, PTL DEF PciSpec, WritesExact

-----------------------------------------------------------------------------
(* The scan of the bus.                                                     *)

Numbers == Bus \X Device \X Function

(* The functions the loops have gone past.                                  *)
Passed(n) ==
  \/ n[1] < bus
  \/ n[1] = bus /\ n[2] < device
  \/ n[1] = bus /\ n[2] = device /\ scan = "function" /\ n[3] < function

(* What has been found is what there is among the functions gone past; the  *)
(* loop over functions is only entered for a device that answers.           *)
ScanInv ==
  /\ ScanTypeOK
  /\ machine \in [Bus \X Device -> Slots]
  /\ scan = "function" => /\ bus < BUSES /\ device < DEVICES /\ function <= functions
                          /\ functions = FunctionCount(bus, device)
  /\ scan = "done" => bus = BUSES
  /\ \A n \in Numbers : n \in Found <=> n \in Existing /\ Passed(n)
  /\ IsFiniteSet(Found) /\ Cardinality(Found) = Len(found)

LEMMA SlotFacts ==
  ASSUME ScanInv, NEW b \in Bus, NEW d \in Device
  PROVE  LET s == machine[<<b, d>>]
         IN /\ s \in Slots /\ s.functions \subseteq Function /\ s.multi \in BOOLEAN
            /\ s.functions # {} => 0 \in s.functions
            /\ s.multi <=> s.functions \ {0} # {}
            /\ s.deaf => s.functions = {0}
  <1>1. machine[<<b, d>>] \in Slots  BY DEF ScanInv
  <1> QED  BY <1>1, ScanAssumption DEF Slot

LEMMA CountFacts ==
  ASSUME ScanInv, NEW b \in Bus, NEW d \in Device
  PROVE  /\ FunctionCount(b, d) \in 1 .. FUNCTIONS
         /\ \A f \in Function : f \in machine[<<b, d>>].functions => f < FunctionCount(b, d)
         /\ \A f \in 0 .. FunctionCount(b, d) - 1 :
              Answers(b, d, f) <=> f \in machine[<<b, d>>].functions
         /\ ~Answers(b, d, 0) => machine[<<b, d>>].functions = {}
  <1>1. FunctionCount(b, d) \in 1 .. FUNCTIONS
    BY PciNumbers DEF FunctionCount
  <1>2. ASSUME NEW f \in Function, f \in machine[<<b, d>>].functions
        PROVE  f < FunctionCount(b, d)
    BY <1>2, SlotFacts, PciNumbers DEF FunctionCount, MultiFunction, Function
  <1>3. ASSUME NEW f \in 0 .. FunctionCount(b, d) - 1
        PROVE  Answers(b, d, f) <=> f \in machine[<<b, d>>].functions
    <2>1. machine[<<b, d>>].deaf => FunctionCount(b, d) = 1 /\ machine[<<b, d>>].functions = {0}
      BY SlotFacts DEF FunctionCount, MultiFunction
    <2> QED  BY <2>1 DEF Answers
  <1>4. ~Answers(b, d, 0) => machine[<<b, d>>].functions = {}
    BY SlotFacts DEF Answers
  <1> QED  BY <1>1, <1>2, <1>3, <1>4

(* A step that finds nothing goes past no function that exists.             *)
LEMMA QuietStep ==
  ASSUME ScanInv, found' = found, machine' = machine,
         (/\ ScanTypeOK
          /\ scan = "function" => /\ bus < BUSES /\ device < DEVICES
                                  /\ function <= functions
                                  /\ functions = FunctionCount(bus, device)
          /\ scan = "done" => bus = BUSES)',
         \A n \in Existing : Passed(n)' <=> Passed(n)
  PROVE  ScanInv'
  <1>1. Found' = Found /\ Existing' = Existing  BY DEF Found, Existing
  <1>2. \A n \in Numbers : (n \in Found)' <=> (n \in Existing)' /\ Passed(n)'
    BY <1>1 DEF ScanInv
  <1> QED  BY <1>1, <1>2 DEF ScanInv

LEMMA CounterFacts ==
  /\ \A b \in 0 .. BUSES - 1 : (b + 1) % BUS_COUNTER = b + 1
  /\ \A d \in 0 .. DEVICES - 1 : (d + 1) % BYTE_COUNTER = d + 1
  /\ \A f \in 0 .. FUNCTIONS - 1 : (f + 1) % BYTE_COUNTER = f + 1
  BY ScanAssumption, PciNumbers

LEMMA ExistingFacts ==
  ASSUME NEW n \in Existing
  PROVE  /\ n[1] \in Bus /\ n[1] \in Nat /\ n[1] < BUSES
         /\ n[2] \in Device /\ n[2] \in Nat /\ n[2] < DEVICES
         /\ n[3] \in Function /\ n[3] \in Nat
         /\ n[3] \in machine[<<n[1], n[2]>>].functions
  <1>1. /\ n[1] \in Bus /\ n[2] \in Device /\ n[3] \in Function
        /\ n[3] \in machine[<<n[1], n[2]>>].functions
    BY DEF Existing
  <1>2. BUSES \in Nat /\ DEVICES \in Nat /\ FUNCTIONS \in Nat  BY PciNumbers
  <1> QED  BY <1>1, <1>2 DEF Bus, Device, Function

LEMMA ProbeStep ==
  ASSUME ScanInv, ProbeDevice
  PROVE  ScanInv'
  <1>1. /\ scan = "device" /\ bus \in Bus /\ device \in Device
        /\ UNCHANGED <<machine, bus, found>> /\ bus < BUSES /\ device < DEVICES
    <2>1. /\ scan = "device" /\ bus < BUSES /\ device < DEVICES
          /\ UNCHANGED <<machine, bus, found>>
      BY DEF ProbeDevice
    <2> QED  BY <2>1, PciNumbers DEF ScanInv, ScanTypeOK, Bus, Device
  <1>2. CASE Answers(bus, device, 0)
    <2>1. /\ functions' = FunctionCount(bus, device) /\ function' = 0
          /\ scan' = "function" /\ device' = device
      BY <1>2 DEF ProbeDevice
    <2>2. functions' \in 1 .. FUNCTIONS  BY <1>1, <2>1, CountFacts
    <2>3. (functions = FunctionCount(bus, device))'
      BY <1>1, <2>1 DEF FunctionCount, MultiFunction
    <2>4. ScanTypeOK'  BY <1>1, <2>1, <2>2, PciNumbers DEF ScanInv, ScanTypeOK
    <2>5. ASSUME NEW n \in Existing  PROVE Passed(n)' <=> Passed(n)
      <3>1. n[3] \in Nat  BY ExistingFacts
      <3> QED  BY <1>1, <2>1, <3>1 DEF Passed
    <2> QED  BY <1>1, <2>1, <2>2, <2>3, <2>4, <2>5, QuietStep, PciNumbers
  <1>3. CASE ~Answers(bus, device, 0)
    <2>1. device' = device + 1 /\ UNCHANGED <<function, functions, scan>>
      BY <1>1, <1>3, CounterFacts DEF ProbeDevice, NextDevice, Device
    <2>2. ScanTypeOK'  BY <1>1, <2>1, PciNumbers DEF ScanInv, ScanTypeOK, Device
    <2>3. machine[<<bus, device>>].functions = {}  BY <1>1, <1>3, CountFacts
    <2>4. ASSUME NEW n \in Existing  PROVE Passed(n)' <=> Passed(n)
      <3>1. ~(n[1] = bus /\ n[2] = device)  BY <2>3, ExistingFacts
      <3>2. n[2] \in Nat /\ device \in Nat
        <4>1. n[2] \in Nat  BY ExistingFacts
        <4>2. device \in Nat  BY <1>1, PciNumbers DEF Device
        <4> QED  BY <4>1, <4>2
      <3>3. n[2] < device + 1 <=> n[2] < device \/ n[2] = device  BY <3>2
      <3> QED  BY <1>1, <2>1, <3>1, <3>3 DEF Passed
    <2> QED  BY <1>1, <2>1, <2>2, <2>4, QuietStep
  <1> QED  BY <1>2, <1>3

LEMMA FunctionsDoneStep ==
  ASSUME ScanInv, FunctionsDone
  PROVE  ScanInv'
  <1>1. /\ scan = "function" /\ bus \in Bus /\ device \in Device /\ function >= functions
        /\ UNCHANGED <<machine, bus, function, functions, found>>
        /\ functions = FunctionCount(bus, device) /\ function \in Nat
    BY PciNumbers DEF FunctionsDone, ScanInv, ScanTypeOK, Bus, Device
  <1>2. device' = device + 1 /\ scan' = "device"
    BY <1>1, CounterFacts DEF FunctionsDone, NextDevice, Device
  <1>3. ScanTypeOK'  BY <1>1, <1>2, PciNumbers DEF ScanInv, ScanTypeOK, Device
  <1>4. \A f \in Function : f \in machine[<<bus, device>>].functions => f < functions
    BY <1>1, CountFacts
  <1>5. functions \in Nat  BY PciNumbers DEF ScanInv, ScanTypeOK
  <1>6. ASSUME NEW n \in Existing  PROVE Passed(n)' <=> Passed(n)
    <2>1. n[1] = bus /\ n[2] = device => n[3] < function
      BY <1>1, <1>4, <1>5, ExistingFacts DEF Function
    <2>2. n[2] \in Nat /\ device \in Nat
      <3>1. n[2] \in Nat  BY ExistingFacts
      <3>2. device \in Nat  BY <1>1, PciNumbers DEF Device
      <3> QED  BY <3>1, <3>2
    <2>3. n[2] < device + 1 <=> n[2] < device \/ n[2] = device  BY <2>2
    <2> QED  BY <1>1, <1>2, <2>1, <2>3 DEF Passed
  <1> QED  BY <1>1, <1>2, <1>3, <1>6, QuietStep

LEMMA BusDoneStep ==
  ASSUME ScanInv, BusDone
  PROVE  ScanInv'
  <1>1. /\ scan = "device" /\ bus < BUSES /\ device >= DEVICES /\ device' = 0
        /\ UNCHANGED <<machine, function, functions, scan, found>> /\ bus' = NextBus
    BY DEF BusDone
  <1>2. bus \in 0 .. BUSES - 1 /\ device = DEVICES
    BY <1>1, PciNumbers DEF ScanInv, ScanTypeOK
  <1>3. bus' = bus + 1  BY <1>1, <1>2, CounterFacts DEF NextBus
  <1>4. ScanTypeOK'  BY <1>1, <1>2, <1>3, PciNumbers DEF ScanInv, ScanTypeOK
  <1>5. ASSUME NEW n \in Existing  PROVE Passed(n)' <=> Passed(n)
    <2>1. n[1] \in Nat /\ n[2] < DEVICES /\ n[2] \in Nat  BY ExistingFacts
    <2>2. n[1] < bus + 1 <=> n[1] < bus \/ n[1] = bus  BY <1>2, <2>1
    <2> QED  BY <1>1, <1>2, <1>3, <2>1, <2>2 DEF Passed
  <1> QED  BY <1>1, <1>4, <1>5, QuietStep

(* One function: found if it exists, and not found before.                  *)
LEMMA FunctionStep ==
  ASSUME ScanInv, pci_scan
  PROVE  ScanInv'
  <1> DEFINE at == <<bus, device, function>>
  <1>1. /\ scan = "function" /\ function < functions
        /\ UNCHANGED <<machine, bus, device, functions, scan>>
        /\ function' = (function + 1) % BYTE_COUNTER
        /\ found' = IF Answers(bus, device, function) THEN Append(found, at) ELSE found
    BY DEF pci_scan
  <1>2. /\ bus \in Bus /\ device \in Device /\ functions = FunctionCount(bus, device)
        /\ bus < BUSES /\ device < DEVICES /\ function \in Nat
    BY <1>1, PciNumbers DEF ScanInv, ScanTypeOK, Bus, Device
  <1>3. functions \in 1 .. FUNCTIONS  BY <1>2, CountFacts
  <1>4. function \in Function /\ function \in 0 .. functions - 1
    BY <1>1, <1>2, <1>3, PciNumbers DEF Function
  <1>5. function' = function + 1 /\ function' <= functions
    BY <1>1, <1>2, <1>3, <1>4, CounterFacts DEF Function
  <1>6. at \in Numbers  BY <1>2, <1>4 DEF Numbers
  <1>7. Answers(bus, device, function) <=> at \in Existing
    <2>1. Answers(bus, device, function) <=>
            function \in machine[<<bus, device>>].functions
      BY <1>2, <1>4, CountFacts
    <2> QED  BY <2>1, <1>6 DEF Existing, Numbers
  <1>8. Existing' = Existing  BY <1>1 DEF Existing
  <1>9. ASSUME NEW n \in Numbers  PROVE Passed(n)' <=> Passed(n) \/ n = at
    <2>1. n[3] \in Int /\ n = <<n[1], n[2], n[3]>>  BY DEF Numbers, Function
    <2>2. n[3] < function + 1 <=> n[3] < function \/ n[3] = function  BY <1>2, <2>1
    <2>3. n = at <=> n[1] = bus /\ n[2] = device /\ n[3] = function  BY <2>1
    <2> HIDE DEF at
    <2> QED  BY <1>1, <1>5, <2>2, <2>3 DEF Passed
  <1>10. ~Passed(at)  BY <1>2 DEF Passed, Bus, Device
  <1>11. at \notin Found  BY <1>6, <1>10 DEF ScanInv
  <1>12. found \in Seq(Numbers) /\ IsFiniteSet(Found) /\ Cardinality(Found) = Len(found)
    BY DEF ScanInv, ScanTypeOK, Numbers
  <1> HIDE DEF at
  <1>13. /\ found' \in Seq(Numbers) /\ IsFiniteSet(Found')
         /\ Cardinality(Found') = Len(found')
         /\ Found' = IF at \in Existing THEN Found \cup {at} ELSE Found
    <2>1. CASE at \in Existing
      <3>1. found' = Append(found, at)  BY <1>1, <1>7, <2>1
      <3>2. /\ found' \in Seq(Numbers) /\ Len(found') = Len(found) + 1
            /\ \A i \in 1 .. Len(found) : found'[i] = found[i]
            /\ found'[Len(found) + 1] = at
        BY <3>1, <1>6, <1>12, AppendProperties
      <3>3. Len(found) \in Nat  BY <1>12, LenProperties
      <3>4. 1 .. Len(found) + 1 = (1 .. Len(found)) \cup {Len(found) + 1}  BY <3>3
      <3>5. Found' = {found'[i] : i \in 1 .. Len(found) + 1}  BY <3>2 DEF Found
      <3>6. Found' = Found \cup {at}  BY <3>2, <3>4, <3>5 DEF Found
      <3>7. IsFiniteSet(Found \cup {at}) /\ Cardinality(Found \cup {at}) = Cardinality(Found) + 1
        BY <1>11, <1>12, FS_AddElement
      <3> QED  BY <1>12, <2>1, <3>2, <3>6, <3>7
    <2>2. CASE at \notin Existing
      <3>1. found' = found  BY <1>1, <1>7, <2>2
      <3>2. Found' = Found  BY <3>1 DEF Found
      <3> QED  BY <1>12, <2>2, <3>1, <3>2
    <2> QED  BY <2>1, <2>2
  <1>14. \A n \in Numbers : n \in Found' <=> n \in Existing' /\ Passed(n)'
    BY <1>8, <1>9, <1>13 DEF ScanInv
  <1>15. ScanTypeOK'
    BY <1>1, <1>3, <1>5, <1>2, <1>13, PciNumbers DEF ScanInv, ScanTypeOK, Numbers
  <1>16. (functions = FunctionCount(bus, device))'
    BY <1>1, <1>2 DEF FunctionCount, MultiFunction
  <1> QED  BY <1>1, <1>2, <1>5, <1>13, <1>14, <1>15, <1>16 DEF ScanInv

LEMMA ScanStepKeeps ==
  ASSUME ScanInv, [ScanNext]_scanVars
  PROVE  ScanInv'
  <1>1. CASE pci_init \/ ScanDone
    <2>1. /\ UNCHANGED <<machine, bus, device, function, functions, found>>
          /\ \/ scan = "idle" /\ scan' = "device"
             \/ scan = "device" /\ scan' = "done" /\ bus >= BUSES
      BY <1>1 DEF pci_init, ScanDone
    <2>2. ScanTypeOK'  BY <2>1 DEF ScanInv, ScanTypeOK
    <2>3. (scan = "done" => bus = BUSES)'
      BY <2>1, PciNumbers DEF ScanInv, ScanTypeOK
    <2>4. \A n \in Existing : Passed(n)' <=> Passed(n)  BY <2>1 DEF Passed
    <2> QED  BY <2>1, <2>2, <2>3, <2>4, QuietStep
  <1>2. CASE UNCHANGED scanVars
    BY <1>2 DEF scanVars, ScanInv, ScanTypeOK, Found, Existing, Passed, FunctionCount,
       MultiFunction
  <1> QED
    BY <1>1, <1>2, ProbeStep, FunctionsDoneStep, BusDoneStep, FunctionStep
    DEF ScanNext, ScanStep

(* When pci_init returns it has visited every function of the machine once, *)
(* and none that is an echo of function 0: the safety half of ScanExact,    *)
(* whatever is plugged in and however many buses, devices and functions the *)
(* loops run over, provided the counters are wide enough for them.          *)
ScanSound ==
  scan = "done" => Found = Existing /\ Cardinality(Found) = Len(found)

THEOREM ScanSoundCorrect == ScanSpec => [](ScanTypeOK /\ ScanSound)
  <1>1. ScanInit => ScanInv
    <2> SUFFICES ASSUME ScanInit PROVE ScanInv  OBVIOUS
    <2>1. found = <<>> /\ found \in Seq(Bus \X Device \X Function) /\ Len(found) = 0
      BY EmptySeq DEF ScanInit
    <2>2. Found = {}  BY <2>1 DEF Found
    <2>3. IsFiniteSet({}) /\ Cardinality({}) = 0  BY FS_EmptySet
    <2>4. \A n \in Numbers : ~Passed(n)
      BY DEF Passed, ScanInit, Numbers, Bus, Device, Function
    <2>5. ScanTypeOK  BY <2>1, PciNumbers DEF ScanTypeOK, ScanInit
    <2> QED  BY <2>1, <2>2, <2>3, <2>4, <2>5 DEF ScanInv, ScanInit
  <1>2. ScanInv => ScanSound
    <2> SUFFICES ASSUME ScanInv, scan = "done"
                 PROVE  Found = Existing /\ Cardinality(Found) = Len(found)
      BY DEF ScanSound
    <2>1. \A n \in Existing : Passed(n)
      <3>1. bus = BUSES  BY DEF ScanInv
      <3>2. \A n \in Existing : n[1] < BUSES  BY ExistingFacts
      <3> QED  BY <3>1, <3>2 DEF Passed
    <2>2. Existing \subseteq Numbers  BY DEF Existing, Numbers
    <2>3. Found \subseteq Numbers
      <3>1. found \in Seq(Numbers)  BY DEF ScanInv, ScanTypeOK, Numbers
      <3> QED  BY <3>1, ElementOfSeq DEF Found
    <2> QED  BY <2>1, <2>2, <2>3 DEF ScanInv
  <1>3. ScanInv => ScanTypeOK  BY DEF ScanInv
  <1> QED  BY <1>1, <1>2, <1>3, ScanStepKeeps, PTL DEF ScanSpec

=============================================================================
