--------------------------- MODULE InferenceProofs ----------------------------
(***************************************************************************)
(* Theorems about ModelLoad and AddLayer.                                  *)
(***************************************************************************)
EXTENDS ModelLoad, AddLayer, TLAPS

-----------------------------------------------------------------------------
(* Numbers *)

(* An int that does not overflow is what it should be, as a size_t too;     *)
(* every int is one.                                                       *)
LEMMA NoWrap ==
  ASSUME NEW n \in Int32
  PROVE  Wrapped(n) = n /\ (n >= 0 => ToSize(n) = n)
PROOF
<1>1. /\ IntLimit \in Nat /\ SizeLimit \in Nat /\ n \in Int
      /\ n + IntLimit >= 0 /\ n + IntLimit < 2 * IntLimit /\ n < SizeLimit
  BY LoadAssumption, SMT DEF Int32
<1>2. (n + IntLimit) % (2 * IntLimit) = n + IntLimit /\ (n >= 0 => n % SizeLimit = n)
  BY <1>1, SMT
<1> QED
  BY <1>1, <1>2, SMT DEF Wrapped, ToSize

LEMMA WrappedType ==
  ASSUME NEW n \in Int
  PROVE  Wrapped(n) \in Int32
PROOF
<1>1. IntLimit \in Nat \ {0}
  BY LoadAssumption
<1>2. (n + IntLimit) % (2 * IntLimit) \in 0 .. 2 * IntLimit - 1
  BY <1>1, SMT
<1> QED
  BY <1>1, <1>2, SMT DEF Wrapped, Int32

LEMMA ToSizeType ==
  ASSUME NEW n \in Int
  PROVE  ToSize(n) \in 0 .. SizeLimit - 1
PROOF
<1>1. SizeLimit \in Nat \ {0}
  BY LoadAssumption
<1> QED
  BY <1>1, SMT DEF ToSize

(* A start that just overflows comes out almost 2^64 further.              *)
LEMMA OverflowIsHuge ==
  ASSUME NEW n \in IntLimit .. 2 * IntLimit - 1
  PROVE  ToSize(Wrapped(n)) >= SizeLimit - IntLimit
PROOF
<1>1. IntLimit \in Nat /\ SizeLimit \in Nat /\ 2 * IntLimit <= SizeLimit /\ n \in Int
  BY LoadAssumption
<1>2. Wrapped(n) = n - 2 * IntLimit
  <2>1. (n + IntLimit) % (2 * IntLimit) = n - IntLimit
    BY <1>1, SMT
  <2> QED
    BY <1>1, <2>1, SMT DEF Wrapped
<1>3. Wrapped(n) \in -IntLimit .. -1
  BY <1>1, <1>2, SMT
<1>4. Wrapped(n) % SizeLimit = Wrapped(n) + SizeLimit
  <2> DEFINE m == Wrapped(n)
  <2>1. m \in Int /\ m < 0 /\ m + SizeLimit \in 0 .. SizeLimit - 1 /\ SizeLimit > 0
    BY <1>1, <1>3, SMT
  <2> HIDE DEF m
  <2>2. m % SizeLimit = m + SizeLimit
    BY <1>1, <2>1, SMT
  <2> QED
    BY <2>2 DEF m
<1> QED
  BY <1>1, <1>3, <1>4, SMT DEF ToSize

(* Division rounds down.                                                   *)
LEMMA Division ==
  ASSUME NEW a \in Nat, NEW b \in Nat \ {0}
  PROVE  /\ a \div b \in Nat
         /\ (a \div b) * b <= a
         /\ a < (a \div b) * b + b
         /\ a % b = 0 => (a \div b) * b = a
         /\ \A q \in Nat : q * b <= a => q <= a \div b
PROOF
<1>1. a \div b \in Nat /\ a = b * (a \div b) + (a % b) /\ a % b \in 0 .. b - 1
  BY SMT
<1>2. ASSUME NEW q \in Nat, q * b <= a
      PROVE  q <= a \div b
  <2>1. SUFFICES ASSUME q >= a \div b + 1 PROVE FALSE
    BY <1>1, SMT
  <2>2. q * b >= (a \div b + 1) * b
    BY <1>1, <2>1, SMT
  <2> QED
    BY <1>1, <1>2, <2>2, SMT
<1> QED
  BY <1>1, <1>2, SMT

LEMMA TimesMonotone ==
  ASSUME NEW a \in Nat, NEW b \in Nat, NEW c \in Nat, a <= b
  PROVE  a * c <= b * c
  BY SMT

LEMMA AbsType ==
  ASSUME NEW a \in Int
  PROVE  Abs(a) \in Nat /\ (a # 0 => Abs(a) \in Nat \ {0})
  BY SMT DEF Abs

(* 1, or -1 for what is negative.                                          *)
Sign(a) == IF a < 0 THEN -1 ELSE 1

LEMMA SignAbs ==
  ASSUME NEW a \in Int
  PROVE  /\ Sign(a) \in {1, -1}
         /\ a = Sign(a) * Abs(a)
         /\ \A s \in {1, -1} : Abs(s * a) = Abs(a)
  BY SMT DEF Sign, Abs

LEMMA AbsTimes ==
  ASSUME NEW a \in Int, NEW b \in Int
  PROVE  /\ Abs(a * b) = Abs(a) * Abs(b)
         /\ a # 0 /\ b # 0 => Sign(a * b) = Sign(a) * Sign(b)
PROOF
<1>1. CASE a >= 0 /\ b >= 0
  <2>1. a * b >= 0
    BY <1>1, SMT
  <2> QED
    BY <1>1, <2>1, SMT DEF Abs, Sign
<1>2. CASE a < 0 /\ b < 0
  <2>1. a * b > 0 /\ a * b = (-a) * (-b)
    BY <1>2, SMT
  <2> QED
    BY <1>2, <2>1, SMT DEF Abs, Sign
<1>3. CASE a >= 0 /\ b < 0
  <2>1. a * (-b) >= 0 /\ a * (-b) = -(a * b) /\ (a # 0 => a * b < 0)
    BY <1>3, SMT
  <2> QED
    BY <1>3, <2>1, SMT DEF Abs, Sign
<1>4. CASE a < 0 /\ b >= 0
  <2>1. (-a) * b >= 0 /\ (-a) * b = -(a * b) /\ (b # 0 => a * b < 0)
    BY <1>4, SMT
  <2> QED
    BY <1>4, <2>1, SMT DEF Abs, Sign
<1> QED
  BY <1>1, <1>2, <1>3, <1>4

(* Division of ints in terms of that of natural numbers.                   *)
LEMMA CDivSign ==
  ASSUME NEW a \in Int, NEW b \in Int, b # 0
  PROVE  /\ CDiv(a, b) \in Int
         /\ CDiv(a, b) = (Sign(a) * Sign(b)) * (Abs(a) \div Abs(b))
         /\ Abs(CDiv(a, b)) = Abs(a) \div Abs(b)
PROOF
<1> DEFINE q == Abs(a) \div Abs(b)
<1>1. q \in Nat
  BY AbsType, Division
<1>2. CDiv(a, b) = IF a < 0 <=> b < 0 THEN q ELSE -q
  BY DEF CDiv
<1> HIDE DEF q
<1>3. CDiv(a, b) = (Sign(a) * Sign(b)) * q /\ CDiv(a, b) \in Int /\ Abs(CDiv(a, b)) = q
  BY <1>1, <1>2, SMT DEF Sign, Abs
<1> QED
  BY <1>3 DEF q

(* A division that does not trap has an int for its result.                *)
LEMMA CDivType ==
  ASSUME NEW a \in Int32, NEW b \in Int32, ~Traps(a, b)
  PROVE  CDiv(a, b) \in Int32
PROOF
<1> DEFINE q == Abs(a) \div Abs(b)
<1>0. /\ IntLimit \in Nat /\ IntLimit > 1
      /\ a \in Int /\ a >= -IntLimit /\ a < IntLimit
      /\ b \in Int /\ b # 0 /\ ~(a = -IntLimit /\ b = -1)
  BY LoadAssumption DEF Int32, Traps
<1>1. Abs(a) \in Nat /\ Abs(b) \in Nat \ {0}
  BY <1>0, AbsType
<1>2. q \in Nat /\ q * Abs(b) <= Abs(a)
  BY <1>1, Division
<1>3. CDiv(a, b) = IF a < 0 <=> b < 0 THEN q ELSE -q
  BY DEF CDiv
<1> HIDE DEF q
<1>4. q <= q * Abs(b)
  <2>1. 1 * q <= Abs(b) * q
    BY <1>1, <1>2, TimesMonotone, SMT
  <2> QED
    BY <1>1, <1>2, <2>1, SMT
<1>5. q <= IntLimit
  BY <1>0, <1>1, <1>2, <1>4, SMT DEF Abs
<1>6. ASSUME q = IntLimit, a < 0 <=> b < 0
      PROVE  FALSE
  <2>1. a = -IntLimit /\ Abs(a) = IntLimit
    BY <1>0, <1>1, <1>2, <1>4, <1>6, SMT DEF Abs
  <2>2. Abs(b) >= 2
    BY <1>0, <1>6, <2>1, SMT DEF Abs
  <2>3. 2 * q <= Abs(b) * q
    BY <1>1, <1>2, <2>2, TimesMonotone, SMT
  <2> QED
    BY <1>0, <1>1, <1>2, <1>6, <2>1, <2>3, SMT
<1> QED
  BY <1>0, <1>2, <1>3, <1>5, <1>6, SMT DEF Int32

(* kv as the dimension of V of H heads over D.                              *)
HeadsRight(D, H, V, kv) ==
  /\ (D \div H) * V <= kv
  /\ (H \div V) * kv <= D
  /\ D % H = 0 /\ H % V = 0 => (D \div H) * V = kv /\ (H \div V) * kv = D

(* The heads of a configuration whose kv_dim does not overflow.             *)
LEMMA HeadsOfConfig ==
  ASSUME NEW D \in Nat, NEW H \in Nat \ {0}, NEW V \in Nat \ {0},
         NEW kv, kv = (D * V) \div H
  PROVE  HeadsRight(D, H, V, kv)
PROOF
<1> DEFINE hs == D \div H
           mul == H \div V
<1>0. D * V \in Nat /\ hs \in Nat /\ mul \in Nat /\ kv \in Nat
  BY Division, SMT
<1>1. hs * H <= D /\ mul * V <= H /\ kv * H <= D * V
  BY <1>0, Division
<1> HIDE DEF hs, mul
<1>2. hs * V <= kv
  <2>1. (hs * V) * H = (hs * H) * V
    BY <1>0, SMT
  <2>2. (hs * H) * V <= D * V
    BY <1>0, <1>1, TimesMonotone, SMT
  <2>3. hs * V \in Nat /\ (hs * V) * H <= D * V
    BY <1>0, <2>1, <2>2, SMT
  <2> QED
    BY <1>0, <2>3, Division
<1>3. mul * kv <= D
  <2>1. SUFFICES ASSUME mul * kv >= D + 1 PROVE FALSE
    BY <1>0, SMT
  <2>2. (mul * kv) * H <= D * H
    <3>1. (mul * kv) * H = (kv * H) * mul
      BY <1>0, SMT
    <3>2. (kv * H) * mul <= (D * V) * mul
      BY <1>0, <1>1, TimesMonotone, SMT
    <3>3. (D * V) * mul = (mul * V) * D
      BY <1>0, SMT
    <3>4. (mul * V) * D <= H * D
      BY <1>0, <1>1, TimesMonotone, SMT
    <3>5. H * D = D * H
      BY SMT
    <3> QED
      BY <1>0, <3>1, <3>2, <3>3, <3>4, <3>5, SMT
  <2>3. (D + 1) * H <= (mul * kv) * H
    BY <1>0, <2>1, TimesMonotone, SMT
  <2>4. (D + 1) * H = D * H + H
    BY SMT
  <2> QED
    BY <1>0, <2>2, <2>3, <2>4, SMT
<1>4. ASSUME D % H = 0, H % V = 0
      PROVE  hs * V = kv /\ mul * kv = D
  <2>1. hs * H = D /\ mul * V = H
    BY <1>4, Division DEF hs, mul
  <2>2. D * V = (hs * V) * H
    BY <1>0, <2>1, SMT
  <2>3. hs * V = kv
    <3>1. hs * V \in Nat /\ kv <= hs * V
      <4>1. SUFFICES ASSUME kv >= hs * V + 1 PROVE FALSE
        BY <1>0, SMT
      <4>2. (hs * V + 1) * H <= kv * H
        BY <1>0, <4>1, TimesMonotone, SMT
      <4>3. (hs * V + 1) * H = (hs * V) * H + H
        BY <1>0, SMT
      <4> QED
        BY <1>0, <1>1, <2>2, <4>2, <4>3, SMT
    <3> QED
      BY <1>0, <1>2, <3>1, SMT
  <2>4. mul * kv = hs * (mul * V)
    BY <1>0, <2>3, SMT
  <2> QED
    BY <2>1, <2>3, <2>4
<1> QED
  BY <1>2, <1>3, <1>4 DEF hs, mul, HeadsRight

-----------------------------------------------------------------------------
(* Loading a model *)

FromFile(c) == \E f \in Files : ~Deadly(f.config) /\ c = Infos(f.config)

(* The descriptors the steps so far of a read have cost.                   *)
Spent ==
  /\ 2 * reads <= descriptors
  /\ step = "fopen" => 2 * reads + 1 <= descriptors
  /\ step \in {"config", "group", "infos"} => 2 * reads + 2 <= descriptors

(* The layers of a call, where the call put them.                          *)
Stays(call, layers) ==
  \A n \in 1 .. call.config.layer_num_ :
    /\ call.first + n <= Len(layers)
    /\ layers[call.first + n] = Layers(call.config)[n]

CallsStay == \A k \in 1 .. Len(created) : Stays(created[k], wq_layers_)

LoadInv ==
  /\ LoadTypeOK
  /\ OneFile
  /\ step = "infos" /\ id_quant_model_ => group_size_ = file.group_size
  /\ Spent
  /\ reads > 0 => FromFile(config_)
  /\ CallsStay

LEMMA IntIsNumber == Int32 \subseteq Int /\ 0 \in Int32 /\ IntLimit \in Nat
  BY LoadAssumption, SMT DEF Int32

LEMMA CAbsType ==
  ASSUME NEW n \in Int32
  PROVE  CAbs(n) \in Int32
PROOF
<1>1. n \in Int
  BY IntIsNumber
<1>2. Abs(n) \in Int
  BY <1>1, SMT DEF Abs
<1> QED
  BY <1>2, WrappedType DEF CAbs

LEMMA TimesType ==
  ASSUME NEW a \in Int32, NEW b \in Int32
  PROVE  a * b \in Int
PROOF
<1>1. a \in Int /\ b \in Int
  BY IntIsNumber
<1> QED
  BY <1>1, SMT

(* An int that is not negative is its own absolute value.                  *)
LEMMA CAbsSame ==
  ASSUME NEW n \in Int32, n >= 0
  PROVE  CAbs(n) = n
PROOF
<1>1. n \in Int
  BY IntIsNumber
<1>2. Abs(n) = n
  BY <1>1, SMT DEF Abs
<1> QED
  BY <1>2, NoWrap DEF CAbs

LEMMA FileConfig ==
  ASSUME NEW f \in Files
  PROVE  /\ f.config \in Config
         /\ f.config.dim \in Int32 /\ f.config.layer_num \in Int32
         /\ f.config.head_num \in Int32 /\ f.config.kv_head_num \in Int32
         /\ f.config.vocab_size \in Int32
  BY LoadAssumption DEF Config

LEMMA InfosType ==
  ASSUME NEW c \in Config, ~Deadly(c)
  PROVE  /\ Infos(c) \in TransformerConfig
         /\ c.head_num # 0 /\ c.kv_head_num # 0
PROOF
<1>1. /\ c.dim \in Int32 /\ c.layer_num \in Int32 /\ c.vocab_size \in Int32
      /\ c.head_num \in Int32 /\ c.kv_head_num \in Int32
  BY DEF Config
<1>2. CAbs(c.vocab_size) \in Int32
  BY <1>1, CAbsType
<1>3. KvDim(c) \in Int32
  <2>1. c.dim * c.kv_head_num \in Int
    BY <1>1, TimesType
  <2>2. Wrapped(c.dim * c.kv_head_num) \in Int32
    BY <2>1, WrappedType
  <2> QED
    BY <1>1, <2>2, CDivType DEF KvDim, Deadly
<1>4. CDiv(c.head_num, c.kv_head_num) \in Int32 /\ CDiv(c.dim, c.head_num) \in Int32
  BY <1>1, CDivType DEF Deadly
<1>5. Infos(c) \in TransformerConfig
  BY <1>1, <1>2, <1>3, <1>4 DEF Infos, TransformerConfig
<1> QED
  BY <1>5 DEF Deadly, Traps

LEMMA FunctionIsSeq ==
  ASSUME NEW S, NEW n \in Nat, NEW f \in [1 .. n -> S]
  PROVE  f \in Seq(S) /\ Len(f) = n
  OBVIOUS

LEMMA ConcatType ==
  ASSUME NEW S, NEW p \in Seq(S), NEW q \in Seq(S)
  PROVE  /\ p \o q \in Seq(S)
         /\ Len(p) \in Nat /\ Len(p \o q) = Len(p) + Len(q)
         /\ \A n \in 1 .. Len(p) : (p \o q)[n] = p[n]
         /\ \A n \in 1 .. Len(q) : (p \o q)[Len(p) + n] = q[n]
  OBVIOUS

LEMMA AppendType ==
  ASSUME NEW S, NEW p \in Seq(S), NEW e \in S
  PROVE  /\ Append(p, e) \in Seq(S)
         /\ Len(p) \in Nat /\ Len(Append(p, e)) = Len(p) + 1
         /\ \A n \in 1 .. Len(p) : Append(p, e)[n] = p[n]
         /\ Append(p, e)[Len(p) + 1] = e
  OBVIOUS

Weight == [pos : 0 .. SizeLimit - 1, dim : Int32]

Call == [config : TransformerConfig, first : Nat]

LEMMA LayersType ==
  ASSUME NEW c \in TransformerConfig
  PROVE  /\ Layers(c) \in Seq(Weight)
         /\ Len(Layers(c)) = IF c.layer_num_ < 0 THEN 0 ELSE c.layer_num_
PROOF
<1> DEFINE total == IF c.layer_num_ < 0 THEN 0 ELSE c.layer_num_
<1>1. c.dim_ \in Int32 /\ c.dim_ \in Int /\ c.layer_num_ \in Int /\ c.vocab_size_ \in Int
  BY IntIsNumber DEF TransformerConfig
<1>2. Advance(c) \in Int
  <2>1. c.dim_ * c.dim_ \in Int
    BY <1>1, SMT
  <2> QED
    BY <2>1, WrappedType, IntIsNumber DEF Advance
<1>3. FirstPos(c) \in Int
  <2>0. CAbs(c.vocab_size_) \in Int
    <3>1. CAbs(c.vocab_size_) \in Int32
      BY CAbsType DEF TransformerConfig
    <3> QED
      BY <3>1, IntIsNumber
  <2>1. c.dim_ * CAbs(c.vocab_size_) + c.dim_ * c.layer_num_ \in Int
    BY <1>1, <2>0, SMT
  <2>2. Wrapped(c.dim_ * CAbs(c.vocab_size_) + c.dim_ * c.layer_num_) \in Int
    BY <2>1, WrappedType, IntIsNumber
  <2>3. ToSize(Wrapped(c.dim_ * CAbs(c.vocab_size_) + c.dim_ * c.layer_num_)) \in 0 .. SizeLimit - 1
    BY <2>2, ToSizeType
  <2> QED
    BY <2>3, LoadAssumption, SMT DEF FirstPos
<1>4. ASSUME NEW n \in 1 .. c.layer_num_
      PROVE  Layer(c, FirstPos(c) + (n - 1) * Advance(c)) \in Weight
  <2>1. FirstPos(c) + (n - 1) * Advance(c) \in Int
    BY <1>2, <1>3, SMT
  <2>2. ToSize(FirstPos(c) + (n - 1) * Advance(c)) \in 0 .. SizeLimit - 1
    BY <2>1, ToSizeType
  <2> QED
    BY <1>1, <2>2 DEF Layer, Weight
<1>5. total \in Nat /\ 1 .. c.layer_num_ = 1 .. total
  BY <1>1, SMT
<1>6. Layers(c) \in [1 .. c.layer_num_ -> Weight]
  BY <1>4 DEF Layers
<1> HIDE DEF total
<1>7. Layers(c) \in Seq(Weight) /\ Len(Layers(c)) = total
  BY <1>5, <1>6, FunctionIsSeq
<1> QED
  BY <1>7 DEF total

LEMMA LoadInitInv == LoadInit => LoadInv
PROOF
<1> SUFFICES ASSUME LoadInit PROVE LoadInv
  OBVIOUS
<1>1. LoadTypeOK
  <2>1. 1 \in Int32
    BY LoadAssumption, SMT DEF Int32
  <2> QED
    BY <2>1, LoadAssumption, IntIsNumber DEF LoadInit, LoadTypeOK, NoInfos, TransformerConfig
<1> QED
  BY <1>1, LoadAssumption DEF LoadInit, LoadInv, OneFile, Spent, CallsStay

(* Each action, in its effect on each part of the invariant.                *)
LEMMA LoadTypeStep ==
  ASSUME LoadInv, LoadNext
  PROVE  LoadTypeOK'
PROOF
<1> USE DEF LoadInv, LoadTypeOK
<1>1. CASE ReplaceFile
  BY <1>1 DEF ReplaceFile
<1>2. CASE OpenDescriptor
  BY <1>2, LoadAssumption DEF OpenDescriptor, Open
<1>3. CASE OpenFile
  BY <1>3, LoadAssumption DEF OpenFile, Open
<1>4. CASE ReadConfig
  BY <1>4 DEF ReadConfig
<1>5. CASE ReadGroup
  <2>1. group_size_' \in Int32
    BY <1>5, LoadAssumption DEF ReadGroup
  <2> QED
    BY <1>5, <2>1 DEF ReadGroup
<1>6. CASE GenerateInfos
  <2>1. CASE Deadly(file.config)
    BY <1>6, <2>1 DEF GenerateInfos
  <2>2. CASE ~Deadly(file.config)
    <3>1. /\ Infos(file.config) \in TransformerConfig
          /\ file.config.head_num # 0 /\ file.config.kv_head_num # 0
      BY <2>2, FileConfig, InfosType
    <3>2. config_' = Infos(file.config) /\ step' = "idle" /\ status' = "ok" /\ reads' = reads + 1
      BY <1>6, <2>2 DEF GenerateInfos
    <3>3. config_'.head_num_ # 0 /\ config_'.kv_head_num_ # 0
      BY <3>1, <3>2 DEF Infos
    <3> QED
      BY <1>6, <3>1, <3>2, <3>3 DEF GenerateInfos
  <2> QED
    BY <2>1, <2>2
<1>7. CASE CreateParamLayers
  <2>1. wq_layers_' \in Seq(Weight) /\ Len(wq_layers_) \in Nat
    <3>1. Layers(config_) \in Seq(Weight) /\ wq_layers_ \in Seq(Weight)
      BY LayersType DEF Weight
    <3>2. wq_layers_' = wq_layers_ \o Layers(config_)
      BY <1>7 DEF CreateParamLayers
    <3> QED
      BY <3>1, <3>2, ConcatType
  <2>2. created' \in Seq(Call)
    <3>1. created \in Seq(Call) /\ [config |-> config_, first |-> Len(wq_layers_)] \in Call
      BY <2>1 DEF Call
    <3> QED
      BY <1>7, <3>1, AppendType DEF CreateParamLayers
  <2> QED
    BY <1>7, <2>1, <2>2 DEF CreateParamLayers, Weight, Call
<1> QED
  BY <1>1, <1>2, <1>3, <1>4, <1>5, <1>6, <1>7 DEF LoadNext

LEMMA OneFileStep ==
  ASSUME LoadInv, LoadNext
  PROVE  /\ OneFile'
         /\ (step = "infos" /\ id_quant_model_ => group_size_ = file.group_size)'
PROOF
<1> USE DEF LoadInv, OneFile
<1>1. CASE ReplaceFile
  BY <1>1 DEF ReplaceFile
<1>2. CASE OpenDescriptor
  BY <1>2 DEF OpenDescriptor, Open
<1>3. CASE OpenFile
  BY <1>3 DEF OpenFile, Open
<1>4. CASE ReadConfig
  BY <1>4 DEF ReadConfig
<1>5. CASE ReadGroup
  BY <1>5 DEF ReadGroup
<1>6. CASE GenerateInfos
  BY <1>6 DEF GenerateInfos
<1>7. CASE CreateParamLayers
  BY <1>7 DEF CreateParamLayers
<1> QED
  BY <1>1, <1>2, <1>3, <1>4, <1>5, <1>6, <1>7 DEF LoadNext

LEMMA SpentStep ==
  ASSUME LoadInv, LoadNext
  PROVE  Spent' /\ (reads > 0 => FromFile(config_))'
PROOF
<1>0. reads \in Nat /\ descriptors \in Nat /\ file \in Files
  BY LoadAssumption DEF LoadInv, LoadTypeOK
<1> USE DEF LoadInv, Spent, FromFile
<1>1. CASE ReplaceFile
  BY <1>1 DEF ReplaceFile
<1>2. CASE OpenDescriptor
  BY <1>0, <1>2 DEF OpenDescriptor, Open
<1>3. CASE OpenFile
  BY <1>0, <1>3 DEF OpenFile, Open
<1>4. CASE ReadConfig
  BY <1>0, <1>4 DEF ReadConfig
<1>5. CASE ReadGroup
  BY <1>0, <1>5 DEF ReadGroup
<1>6. CASE GenerateInfos
  BY <1>0, <1>6 DEF GenerateInfos
<1>7. CASE CreateParamLayers
  BY <1>0, <1>7 DEF CreateParamLayers
<1> QED
  BY <1>1, <1>2, <1>3, <1>4, <1>5, <1>6, <1>7 DEF LoadNext

(* A call appends; what earlier calls made stays in front.                  *)
LEMMA CallsStayStep ==
  ASSUME LoadInv, LoadNext
  PROVE  CallsStay'
PROOF
<1>0. wq_layers_ \in Seq(Weight) /\ created \in Seq(Call) /\ config_ \in TransformerConfig
  BY DEF LoadInv, LoadTypeOK, Weight, Call
<1>1. CASE CreateParamLayers
  <2> DEFINE q == Layers(config_)
             call == [config |-> config_, first |-> Len(wq_layers_)]
  <2>1. wq_layers_' = wq_layers_ \o q /\ created' = Append(created, call)
    BY <1>1 DEF CreateParamLayers
  <2>2. q \in Seq(Weight) /\ Len(q) = IF config_.layer_num_ < 0 THEN 0 ELSE config_.layer_num_
    BY <1>0, LayersType
  <2>3. config_.layer_num_ \in Int
    BY <1>0, IntIsNumber DEF TransformerConfig
  <2> HIDE DEF q
  <2>4. /\ Len(wq_layers_) \in Nat /\ Len(wq_layers_') = Len(wq_layers_) + Len(q)
        /\ \A n \in 1 .. Len(wq_layers_) : wq_layers_'[n] = wq_layers_[n]
        /\ \A n \in 1 .. Len(q) : wq_layers_'[Len(wq_layers_) + n] = q[n]
    <3>1. /\ Len(wq_layers_) \in Nat /\ Len(wq_layers_ \o q) = Len(wq_layers_) + Len(q)
          /\ \A n \in 1 .. Len(wq_layers_) : (wq_layers_ \o q)[n] = wq_layers_[n]
          /\ \A n \in 1 .. Len(q) : (wq_layers_ \o q)[Len(wq_layers_) + n] = q[n]
      <4>1. wq_layers_ \in Seq(Weight) /\ q \in Seq(Weight)
        BY <1>0, <2>2
      <4> QED
        BY <4>1, ConcatType, SMTT(30)
    <3> QED
      BY <2>1, <3>1, Zenon
  <2>5. call \in Call
    BY <1>0, <2>4 DEF Call
  <2> HIDE DEF call
  <2>6. /\ Len(created) \in Nat /\ Len(created') = Len(created) + 1
        /\ \A k \in 1 .. Len(created) : created'[k] = created[k]
        /\ created'[Len(created) + 1] = call
    BY <1>0, <2>1, <2>5, AppendType
  <2>7. Stays(call, wq_layers_')
    <3> SUFFICES ASSUME NEW n \in 1 .. config_.layer_num_
                 PROVE  /\ Len(wq_layers_) + n <= Len(wq_layers_')
                        /\ wq_layers_'[Len(wq_layers_) + n] = q[n]
      BY DEF Stays, call, q
    <3>1. n \in 1 .. Len(q)
      BY <2>2, <2>3, SMT
    <3>2. wq_layers_'[Len(wq_layers_) + n] = q[n]
      BY <2>4, <3>1
    <3>3. Len(q) \in Nat
      BY <2>2, <2>3, SMT
    <3> QED
      BY <2>4, <3>1, <3>2, <3>3
  <2>8. ASSUME NEW k \in 1 .. Len(created)
        PROVE  Stays(created[k], wq_layers_')
    <3> SUFFICES ASSUME NEW n \in 1 .. created[k].config.layer_num_
                 PROVE  /\ created[k].first + n <= Len(wq_layers_')
                        /\ wq_layers_'[created[k].first + n] = Layers(created[k].config)[n]
      BY DEF Stays
    <3>1. created[k] \in Call
      BY <1>0
    <3>2. created[k].first \in Nat /\ created[k].config.layer_num_ \in Int
      BY <3>1, IntIsNumber DEF Call, TransformerConfig
    <3>3. /\ created[k].first + n <= Len(wq_layers_)
          /\ wq_layers_[created[k].first + n] = Layers(created[k].config)[n]
      BY DEF LoadInv, CallsStay, Stays
    <3>4. created[k].first + n \in 1 .. Len(wq_layers_)
      BY <2>4, <3>2, <3>3, SMT
    <3>5. wq_layers_'[created[k].first + n] = wq_layers_[created[k].first + n]
      BY <2>4, <3>4
    <3>6. Len(wq_layers_) <= Len(wq_layers_') /\ Len(wq_layers_') \in Nat
      BY <2>2, <2>3, <2>4, SMT
    <3> QED
      BY <2>4, <3>2, <3>3, <3>4, <3>5, <3>6
  <2>9. ASSUME NEW k \in 1 .. Len(created')
        PROVE  Stays(created'[k], wq_layers_')
    <3>1. k \in 1 .. Len(created) \/ k = Len(created) + 1
      BY <2>6
    <3> QED
      BY <2>6, <2>7, <2>8, <3>1
  <2> QED
    BY <2>9, Zenon DEF CallsStay
<1>2. CASE UNCHANGED <<wq_layers_, created>>
  BY <1>2 DEF LoadInv, CallsStay
<1> QED
  BY <1>1, <1>2 DEF LoadNext, ReplaceFile, OpenDescriptor, OpenFile, ReadConfig, ReadGroup,
                    GenerateInfos

LEMMA LoadInvariant == LoadSpec => []LoadInv
PROOF
<1>1. LoadInit => LoadInv
  BY LoadInitInv
<1>2. LoadInv /\ [LoadNext]_loadVars => LoadInv'
  <2> SUFFICES ASSUME LoadInv, [LoadNext]_loadVars PROVE LoadInv'
    OBVIOUS
  <2>1. CASE LoadNext
    BY <2>1, LoadTypeStep, OneFileStep, SpentStep, CallsStayStep DEF LoadInv
  <2>2. CASE UNCHANGED loadVars
    BY <2>2 DEF loadVars, LoadInv, LoadTypeOK, OneFile, Spent, FromFile, CallsStay
  <2> QED
    BY <2>1, <2>2
<1> QED
  BY <1>1, <1>2, PTL DEF LoadSpec

(* The types of the loader's state; whatever the files hold, kv_dim_ and    *)
(* the rest are defined, and offsets are offsets.                          *)
THEOREM LoadTypeCorrect == LoadSpec => []LoadTypeOK
PROOF
<1>1. LoadInv => LoadTypeOK
  BY DEF LoadInv
<1> QED
  BY <1>1, LoadInvariant, PTL

(* A read that succeeds takes the configuration and the group size from one *)
(* file, however often the file at the path is replaced.                   *)
THEOREM ReadIsOfOneFile == LoadSpec => []OneFile
PROOF
<1>1. LoadInv => OneFile
  BY DEF LoadInv
<1> QED
  BY <1>1, LoadInvariant, PTL

(* The descriptors a process may have bound the reads it can make.          *)
THEOREM ReadsAreBounded == LoadSpec => []ReadsRunOut
PROOF
<1>1. LoadInv => ReadsRunOut
  BY LoadAssumption DEF LoadInv, LoadTypeOK, Spent, ReadsRunOut
<1> QED
  BY <1>1, LoadInvariant, PTL

(* Heads fit into their dimensions for every file, whatever the signs, unless *)
(* an int overflows.                                                       *)
THEOREM HeadsAlwaysFit == LoadSpec => []HeadsFit
PROOF
<1>1. LoadInv => HeadsFit
  <2> SUFFICES ASSUME LoadInv, reads > 0, Abs(config_.dim_ * config_.kv_head_num_) < IntLimit
               PROVE  HeadsFit
    BY DEF HeadsFit
  <2>1. PICK f \in Files : ~Deadly(f.config) /\ config_ = Infos(f.config)
    BY DEF LoadInv, FromFile
  <2> DEFINE D == f.config.dim
             H == f.config.head_num
             V == f.config.kv_head_num
             kv == CDiv(D * V, H)
             mul == CDiv(H, V)
             hs == CDiv(D, H)
  <2>2. D \in Int /\ H \in Int /\ V \in Int /\ H # 0 /\ V # 0
    BY <2>1, FileConfig, InfosType, IntIsNumber
  <2>3. /\ config_.dim_ = D /\ config_.head_num_ = H /\ config_.kv_head_num_ = V
        /\ config_.kv_dim_ = CDiv(Wrapped(D * V), H)
        /\ config_.kv_mul_ = mul /\ config_.head_size_ = hs
    BY <2>1 DEF Infos, KvDim
  <2> HIDE DEF D, H, V
  <2>4. D * V \in Int /\ Abs(D * V) < IntLimit
    BY <2>2, <2>3, SMT
  <2>5. D * V \in Int32
    BY <2>4, IntIsNumber, SMT DEF Abs, Int32
  <2>6. config_.kv_dim_ = kv
    BY <2>3, <2>5, NoWrap
  <2>7. kv \in Int /\ mul \in Int /\ hs \in Int
    BY <2>2, <2>4, CDivSign
  <2>8. /\ Abs(kv) = (Abs(D) * Abs(V)) \div Abs(H)
        /\ Abs(mul) = Abs(H) \div Abs(V) /\ Abs(hs) = Abs(D) \div Abs(H)
    <3>1. /\ Abs(kv) = Abs(D * V) \div Abs(H)
          /\ Abs(mul) = Abs(H) \div Abs(V) /\ Abs(hs) = Abs(D) \div Abs(H)
      BY <2>2, <2>4, CDivSign
    <3>2. Abs(D * V) = Abs(D) * Abs(V)
      BY <2>2, AbsTimes
    <3> QED
      BY <3>1, <3>2
  <2>9. /\ Abs(D) \in Nat /\ Abs(H) \in Nat \ {0} /\ Abs(V) \in Nat \ {0}
    BY <2>2, AbsType
  <2>10. HeadsRight(Abs(D), Abs(H), Abs(V), Abs(kv))
    BY <2>8, <2>9, HeadsOfConfig
  <2>11. Abs(hs * V) = Abs(hs) * Abs(V) /\ Abs(mul * kv) = Abs(mul) * Abs(kv)
    BY <2>2, <2>7, AbsTimes
  <2>12. Abs(hs * V) <= Abs(kv) /\ Abs(mul * kv) <= Abs(D)
    BY <2>8, <2>10, <2>11 DEF HeadsRight
  <2>13. ASSUME Abs(D) % Abs(H) = 0, Abs(H) % Abs(V) = 0
         PROVE  hs * V = kv /\ mul * kv = D
    <3>1. Abs(hs * V) = Abs(kv) /\ Abs(mul * kv) = Abs(D)
      BY <2>8, <2>10, <2>11, <2>13 DEF HeadsRight
    <3>2. /\ hs = (Sign(D) * Sign(H)) * Abs(hs)
          /\ mul = (Sign(H) * Sign(V)) * Abs(mul)
          /\ kv = (Sign(D * V) * Sign(H)) * Abs(kv)
      BY <2>2, <2>4, CDivSign
    <3>3. CASE D = 0
      <4>1. Abs(D) = 0 /\ Abs(mul * kv) = 0 /\ mul * kv = 0
        <5>1. Abs(D) = 0
          BY <3>3 DEF Abs
        <5>2. mul * kv \in Int
          BY <2>7, SMT
        <5> QED
          BY <3>1, <5>1, <5>2, AbsType
      <4>2. Abs(hs) = 0 /\ Abs(kv) = 0
        <5>1. 0 \div Abs(H) = 0
          BY <2>9, SMT
        <5>2. Abs(D) * Abs(V) = 0
          BY <2>9, <4>1, SMT
        <5> QED
          BY <2>8, <4>1, <5>1, <5>2
      <4>3. hs = 0 /\ kv = 0
        BY <2>7, <4>2, AbsType
      <4>4. hs * V = 0
        BY <2>2, <4>3, SMT
      <4> QED
        BY <3>3, <4>1, <4>3, <4>4
    <3>4. CASE D # 0
      <4> DEFINE d == Sign(D)
                 h == Sign(H)
                 v == Sign(V)
      <4>1. d \in {1, -1} /\ h \in {1, -1} /\ v \in {1, -1} /\ Sign(D * V) = d * v
        BY <2>2, <3>4, SignAbs, AbsTimes
      <4>2. D = d * Abs(D) /\ V = v * Abs(V)
        BY <2>2, SignAbs
      <4> HIDE DEF d, h, v
      <4>3. hs = (d * h) * Abs(hs) /\ mul = (h * v) * Abs(mul) /\ kv = ((d * v) * h) * Abs(kv)
        BY <3>2, <4>1 DEF d, h, v
      <4>4. Abs(hs) \in Nat /\ Abs(mul) \in Nat /\ Abs(kv) \in Nat
        BY <2>7, AbsType
      <4>5. Abs(hs) * Abs(V) = Abs(kv) /\ Abs(mul) * Abs(kv) = Abs(D)
        BY <2>11, <3>1
      <4> HIDE DEF hs, mul, kv
      <4>6. hs * V = ((d * h) * v) * (Abs(hs) * Abs(V))
        <5> DEFINE x == Abs(hs)
                   y == Abs(V)
        <5>1. x \in Nat /\ y \in Nat /\ hs = (d * h) * x /\ V = v * y
          BY <2>9, <4>2, <4>3, <4>4
        <5> HIDE DEF x, y
        <5>2. hs * V = ((d * h) * v) * (x * y)
          BY <4>1, <5>1, SMT
        <5> QED
          BY <5>2 DEF x, y
      <4>7. mul * kv = ((h * v) * ((d * v) * h)) * (Abs(mul) * Abs(kv))
        <5> DEFINE x == Abs(mul)
                   y == Abs(kv)
        <5>1. x \in Nat /\ y \in Nat /\ mul = (h * v) * x /\ kv = ((d * v) * h) * y
          BY <4>3, <4>4
        <5> HIDE DEF x, y
        <5>2. mul * kv = ((h * v) * ((d * v) * h)) * (x * y)
          BY <4>1, <5>1, SMT
        <5> QED
          BY <5>2 DEF x, y
      <4>8. (d * h) * v = (d * v) * h /\ (h * v) * ((d * v) * h) = d
        BY <4>1, SMT
      <4> QED
        BY <4>2, <4>3, <4>5, <4>6, <4>7, <4>8
    <3> QED
      BY <3>3, <3>4
  <2> HIDE DEF hs, mul, kv
  <2> QED
    BY <2>3, <2>6, <2>12, <2>13, Zenon DEF HeadsFit
<1> QED
  BY <1>1, LoadInvariant, PTL

(* Two layers of a configuration whose offsets do not overflow.             *)
LEMMA LayersOfConfig ==
  ASSUME NEW c \in TransformerConfig, c.dim_ >= 0, c.vocab_size_ >= 0, Small(c),
         NEW n \in 1 .. c.layer_num_
  PROVE  /\ c.vocab_size_ * c.dim_ <= Layers(c)[n].pos
         /\ \A m \in 1 .. n - 1 :
              Layers(c)[m].pos + c.dim_ * c.dim_ <= Layers(c)[n].pos
PROOF
<1> DEFINE D == c.dim_
           L == c.layer_num_
           Q == c.dim_ * c.dim_
           F == Start(c)
<1>1. D \in Nat /\ L \in Nat /\ c.vocab_size_ \in Nat /\ c.vocab_size_ \in Int32
  <2>1. c.vocab_size_ \in Int32 /\ D \in Int /\ L \in Int /\ c.vocab_size_ \in Int
    BY IntIsNumber DEF TransformerConfig
  <2> QED
    BY <2>1, SMT
<1>2. Q \in Nat /\ D * c.vocab_size_ \in Nat /\ D * L \in Nat /\ F \in Nat
  BY <1>1, SMT DEF Start
<1>3. F < IntLimit /\ Q < IntLimit
  BY DEF Small
<1>4. F + L * Q < SizeLimit
  <2>1. L * D * D = L * Q
    BY <1>1, SMT
  <2> QED
    BY <2>1 DEF Small
<1>5. FirstPos(c) = F /\ Advance(c) = Q
  <2>1. F \in Int32 /\ Q \in Int32
    BY <1>2, <1>3, IntIsNumber, SMT DEF Int32
  <2>2. CAbs(c.vocab_size_) = c.vocab_size_
    BY <1>1, CAbsSame
  <2> QED
    BY <1>2, <2>1, <2>2, NoWrap DEF FirstPos, Advance, Start
<1>6. c.vocab_size_ * c.dim_ <= F
  BY <1>1, <1>2, SMT DEF Start
<1> HIDE DEF Q, F
<1>7. ASSUME NEW m \in 1 .. L
      PROVE  Layers(c)[m].pos = F + (m - 1) * Q /\ (m - 1) * Q \in Nat
  <2>1. (m - 1) * Q <= L * Q
    BY <1>1, <1>2, TimesMonotone, SMT
  <2>2. (m - 1) * Q \in Nat /\ L * Q \in Nat
    BY <1>1, <1>2, SMT
  <2>3. F + (m - 1) * Q \in Nat /\ F + (m - 1) * Q < SizeLimit
    BY <1>2, <1>4, <2>1, <2>2, LoadAssumption, SMT
  <2>4. SizeLimit \in Nat \ {0}
    BY LoadAssumption
  <2>5. ToSize(F + (m - 1) * Q) = F + (m - 1) * Q
    BY <2>3, <2>4, SMT DEF ToSize
  <2> QED
    BY <1>5, <2>2, <2>5 DEF Layers, Layer
<1> HIDE DEF D, L
<1>8. Layers(c)[n].pos = F + (n - 1) * Q /\ (n - 1) * Q \in Nat
  BY <1>7 DEF L
<1>9. ASSUME NEW m \in 1 .. n - 1
      PROVE  Layers(c)[m].pos + Q <= Layers(c)[n].pos
  <2>1. m \in 1 .. L
    BY <1>1, SMT DEF L
  <2>2. Layers(c)[m].pos = F + (m - 1) * Q /\ (m - 1) * Q \in Nat
    BY <1>7, <2>1
  <2>3. m * Q <= (n - 1) * Q
    <3>1. m \in Nat /\ n - 1 \in Nat /\ m <= n - 1
      BY <1>1, <2>1, SMT DEF L
    <3> QED
      BY <1>2, <3>1, TimesMonotone
  <2>4. m * Q = (m - 1) * Q + Q
    BY <1>2, SMT
  <2> QED
    BY <1>2, <1>8, <2>2, <2>3, <2>4, SMT
<1>10. c.vocab_size_ * c.dim_ <= Layers(c)[n].pos
  <2>1. c.vocab_size_ * c.dim_ \in Nat
    BY <1>1, SMT DEF D
  <2> QED
    BY <1>2, <1>6, <1>8, <2>1, SMT
<1> QED
  BY <1>9, <1>10, Zenon DEF Q, D

(* A first offset that just overflows an int.                              *)
LEMMA OverflowedStart ==
  ASSUME NEW c \in TransformerConfig, c.vocab_size_ >= 0, c.layer_num_ >= 1,
         Start(c) \in IntLimit .. 2 * IntLimit - 1
  PROVE  Layers(c)[1].pos >= SizeLimit - IntLimit
PROOF
<1>1. c.vocab_size_ \in Int32 /\ c.layer_num_ \in Int /\ c.dim_ \in Int
  BY IntIsNumber DEF TransformerConfig
<1>2. CAbs(c.vocab_size_) = c.vocab_size_
  BY <1>1, CAbsSame
<1>3. FirstPos(c) = ToSize(Wrapped(Start(c)))
  BY <1>2 DEF FirstPos, Start
<1>4. FirstPos(c) >= SizeLimit - IntLimit
  BY <1>3, OverflowIsHuge
<1>5. FirstPos(c) \in 0 .. SizeLimit - 1
  <2>1. Start(c) \in Int
    OBVIOUS
  <2> QED
    BY <1>3, <2>1, WrappedType, IntIsNumber, ToSizeType
<1>6. SizeLimit \in Nat \ {0}
  BY LoadAssumption
<1>7. ToSize(FirstPos(c)) = FirstPos(c)
  BY <1>5, <1>6, SMT DEF ToSize
<1>8. Advance(c) \in Int
  <2>1. c.dim_ * c.dim_ \in Int
    BY <1>1, SMT
  <2> QED
    BY <2>1, WrappedType, IntIsNumber DEF Advance
<1>9. FirstPos(c) + (1 - 1) * Advance(c) = FirstPos(c)
  BY <1>5, <1>8, SMT
<1>10. 1 \in 1 .. c.layer_num_
  BY <1>1
<1>11. Layers(c)[1] = Layer(c, FirstPos(c))
  BY <1>9, <1>10 DEF Layers
<1> QED
  BY <1>4, <1>7, <1>11 DEF Layer

(* The layers of a call stay where it put them, and their weights do not    *)
(* overlap, whatever the configurations of the calls, as long as no         *)
(* dimension is negative and the offsets fit into an int.                  *)
THEOREM WeightsNeverOverlap == LoadSpec => []WeightsDisjoint
PROOF
<1>1. LoadInv => WeightsDisjoint
  <2> SUFFICES ASSUME LoadInv, NEW k \in 1 .. Len(created),
                      NEW n \in 1 .. created[k].config.layer_num_
               PROVE  LET c == created[k].config
                          first == created[k].first
                      IN  /\ first + n <= Len(wq_layers_)
                          /\ wq_layers_[first + n].dim = c.dim_
                          /\ c.dim_ >= 0 /\ c.vocab_size_ >= 0 /\ Small(c) =>
                               /\ c.vocab_size_ * c.dim_ <= wq_layers_[first + n].pos
                               /\ \A m \in 1 .. n - 1 :
                                    wq_layers_[first + m].pos + c.dim_ * c.dim_
                                      <= wq_layers_[first + n].pos
                          /\ c.vocab_size_ >= 0 /\ Start(c) \in IntLimit .. 2 * IntLimit - 1 =>
                               wq_layers_[first + 1].pos >= SizeLimit - IntLimit
    BY DEF WeightsDisjoint
  <2> DEFINE c == created[k].config
             first == created[k].first
  <2>1. c \in TransformerConfig /\ c.layer_num_ \in Int
    <3>1. created \in Seq(Call)
      BY DEF LoadInv, LoadTypeOK, Call
    <3>2. created[k] \in Call
      BY <3>1
    <3> QED
      BY <3>2, IntIsNumber DEF Call, TransformerConfig
  <2>2. \A m \in 1 .. c.layer_num_ :
          first + m <= Len(wq_layers_) /\ wq_layers_[first + m] = Layers(c)[m]
    BY DEF LoadInv, CallsStay, Stays
  <2> HIDE DEF c, first
  <2>3. n \in 1 .. c.layer_num_ /\ 1 \in 1 .. c.layer_num_ /\ c.layer_num_ >= 1
    BY <2>1 DEF c
  <2>4. \A m \in 1 .. n : wq_layers_[first + m] = Layers(c)[m]
    BY <2>1, <2>2, <2>3
  <2>5. wq_layers_[first + n].dim = c.dim_
    <3>1. wq_layers_[first + n] = Layers(c)[n]
      BY <2>2, <2>3
    <3>2. Layers(c)[n].dim = c.dim_
      BY <2>3 DEF Layers, Layer
    <3> QED
      BY <3>1, <3>2
  <2>6. ASSUME c.dim_ >= 0, c.vocab_size_ >= 0, Small(c)
        PROVE  /\ c.vocab_size_ * c.dim_ <= wq_layers_[first + n].pos
               /\ \A m \in 1 .. n - 1 :
                    wq_layers_[first + m].pos + c.dim_ * c.dim_ <= wq_layers_[first + n].pos
    BY <2>1, <2>3, <2>4, <2>6, LayersOfConfig
  <2>7. ASSUME c.vocab_size_ >= 0, Start(c) \in IntLimit .. 2 * IntLimit - 1
        PROVE  wq_layers_[first + 1].pos >= SizeLimit - IntLimit
    BY <2>1, <2>2, <2>3, <2>7, OverflowedStart
  <2>8. first + n <= Len(wq_layers_)
    BY <2>2, <2>3
  <2> QED
    BY <2>5, <2>6, <2>7, <2>8, Zenon DEF c, first
<1> QED
  BY <1>1, LoadInvariant, PTL

-----------------------------------------------------------------------------
(* The add layer *)

(* What set_input and the launch know of the devices.                      *)
DevicesAgree ==
  /\ \A n \in Input \ late : inputs_[n] = Null \/ device_type(inputs_[n]) = device_type_
  /\ device_type_ = "GPU" => output \notin HostBuffer
  /\ launch.out # Null => device_type_ = "GPU" /\ launch.out = output
  /\ launch.todo # {} =>
       \A n \in Input : launch.in[n] \in Buffer
                        /\ (launch.in[n] \in HostBuffer => n \in launch.late)

(* The threads that are done have written their sums, thread size included. *)
SumsRight ==
  launch.out # Null /\ OnDevice(launch.in) =>
    /\ launch.sums = {x \in Tid(size[launch.out]) \ launch.todo : x <= size[launch.out]}
    /\ launch.todo # {} /\ launch.kept =>
         \A x \in launch.sums : val[launch.out][x] = "sum"

AddInv ==
  /\ AddTypeOK
  /\ DevicesAgree
  /\ SumsRight
  /\ HostSeesNoSum

Launch ==
  [in : [Input -> Buffer \cup {Null}], out : Buffer \cup {Null}, late : SUBSET Input,
   todo : SUBSET Nat, sums : SUBSET Nat, kept : BOOLEAN]

Data(b) == [Cell(b) -> {"start", "sum", "none"}]

LEMMA BufferSize == ASSUME NEW b \in Buffer PROVE size[b] \in Nat \ {0}
  BY AddAssumption

LEMMA TidType ==
  ASSUME NEW n \in Nat
  PROVE  Tid(n) \subseteq Nat
  BY DEF Tid

(* The grid has a thread for every element, and for one more unless the     *)
(* elements fill its blocks.                                               *)
LEMMA Grid ==
  ASSUME NEW n \in Nat
  PROVE  {x \in Tid(n) : x <= n} = IF n % thread_num = 0 THEN 0 .. n - 1 ELSE 0 .. n
PROOF
<1> DEFINE d == thread_num
           q == (n + d - 1) \div d
<1>1. d \in Nat \ {0} /\ n + d - 1 \in Nat
  <2>1. d \in Nat \ {0}
    BY AddAssumption
  <2> QED
    BY <2>1, SMT
<1>2. /\ q \in Nat /\ q * d <= n + d - 1 /\ n + d - 1 < q * d + d
  BY <1>1, Division
<1>3. Tid(n) = 0 .. q * d - 1
  BY DEF Tid, block_num
<1> HIDE DEF d, q
<1>4. q * d \in Nat /\ n <= q * d
  BY <1>1, <1>2, SMT
<1>5. CASE n % d = 0
  <2>1. PICK r \in Nat : n = r * d
    <3>1. (n \div d) * d = n /\ n \div d \in Nat
      BY <1>1, <1>5, Division
    <3> QED
      BY <3>1
  <2>2. q * d = n
    <3>1. ASSUME q >= r + 1
          PROVE  FALSE
      <4>1. (r + 1) * d <= q * d
        BY <1>1, <1>2, <2>1, <3>1, TimesMonotone, SMT
      <4>2. (r + 1) * d = r * d + d
        BY <1>1, <2>1, SMT
      <4> QED
        BY <1>1, <1>2, <1>4, <2>1, <4>1, <4>2, SMT
    <3>2. q <= r
      BY <1>2, <2>1, <3>1
    <3>3. q * d <= r * d
      BY <1>1, <1>2, <2>1, <3>2, TimesMonotone, SMT
    <3> QED
      BY <1>4, <2>1, <3>3, SMT
  <2>3. \A x : x \in Tid(n) /\ x <= n <=> x \in 0 .. n - 1
    BY <1>3, <1>4, <2>2, SMT
  <2> QED
    BY <1>5, <2>3 DEF d
<1>6. CASE n % d # 0
  <2>1. q * d # n
    <3>1. ASSUME q * d = n
          PROVE  FALSE
      <4>1. n = d * (n \div d) + (n % d) /\ n % d \in 0 .. d - 1 /\ n \div d \in Nat
        BY <1>1, SMT
      <4>2. q <= n \div d
        BY <1>1, <1>2, <3>1, Division
      <4>3. q * d <= (n \div d) * d
        BY <1>1, <1>2, <4>1, <4>2, TimesMonotone
      <4>4. (n \div d) * d = d * (n \div d)
        BY <1>1, <4>1, SMT
      <4>5. d * (n \div d) \in Nat
        BY <1>1, <4>1, SMT
      <4> QED
        BY <1>6, <3>1, <4>1, <4>3, <4>4, <4>5, SMT
    <3> QED
      BY <3>1
  <2>2. \A x : x \in Tid(n) /\ x <= n <=> x \in 0 .. n
    BY <1>3, <1>4, <2>1, SMT
  <2> QED
    BY <1>6, <2>2 DEF d
<1> QED
  BY <1>5, <1>6

LEMMA AddInitInv == AddInit => AddInv
PROOF
<1> SUFFICES ASSUME AddInit PROVE AddInv
  OBVIOUS
<1>1. AddTypeOK
  <2>1. \A b \in Buffer : Fresh(b) \in Data(b)
    BY DEF Fresh, Data
  <2> QED
    BY <2>1, AddAssumption DEF AddInit, AddTypeOK, Idle, Data
<1>2. DevicesAgree
  BY AddAssumption DEF AddInit, DevicesAgree, Idle, device_type
<1>3. SumsRight
  BY DEF AddInit, Idle, SumsRight
<1>4. HostSeesNoSum
  BY AddAssumption DEF AddInit, HostSeesNoSum, Fresh
<1> QED
  BY <1>1, <1>2, <1>3, <1>4 DEF AddInv

(* The steps of the host that leave the data alone.                        *)
LEMMA HostInv ==
  ASSUME AddInv, Stop \/ \E idx \in -1 .. 2, b \in Buffer : SetInput(idx, b)
  PROVE  AddInv'
PROOF
<1>1. UNCHANGED <<device_type_, output, backed, val, launch>>
  BY DEF Stop, SetInput
<1>2. /\ inputs_' \in [Input -> Buffer \cup {Null}]
      /\ late' \subseteq Input
      /\ host' \in {"runs", "stopped"}
      /\ \A n \in Input \ late' :
           inputs_'[n] = Null \/ device_type(inputs_'[n]) = device_type_
  <2> USE DEF AddInv, AddTypeOK, DevicesAgree
  <2>1. CASE Stop
    BY <2>1 DEF Stop
  <2>2. ASSUME NEW idx \in -1 .. 2, NEW b \in Buffer, SetInput(idx, b)
        PROVE  <1>2!1 /\ <1>2!2 /\ <1>2!3 /\ <1>2!4
    BY <2>2 DEF SetInput, Accepts, is_empty, Input
  <2> QED
    BY <2>1, <2>2
<1>3. AddTypeOK'
  BY <1>1, <1>2 DEF AddInv, AddTypeOK
<1>4. DevicesAgree'
  BY <1>1, <1>2 DEF AddInv, DevicesAgree
<1> QED
  BY <1>1, <1>3, <1>4 DEF AddInv, SumsRight, HostSeesNoSum

(* Other memory under a Buffer: a kernel at work on it is marked.           *)
LEMMA AllocateInv ==
  ASSUME AddInv, NEW b \in Buffer, Allocate(b)
  PROVE  AddInv'
PROOF
<1>1. /\ UNCHANGED <<device_type_, inputs_, output, late, host>>
      /\ backed' \subseteq Buffer
      /\ val' = [val EXCEPT ![b] = Fresh(b)]
      /\ launch' = [launch EXCEPT !.kept = @ /\ b # launch.out]
  BY DEF Allocate, AddInv, AddTypeOK
<1>2. /\ launch \in Launch /\ val = [d \in Buffer |-> val[d]]
      /\ \A d \in Buffer : val[d] \in Data(d)
  BY DEF AddInv, AddTypeOK, Launch, Data
<1>3. /\ launch'.in = launch.in /\ launch'.out = launch.out /\ launch'.late = launch.late
      /\ launch'.todo = launch.todo /\ launch'.sums = launch.sums
      /\ launch'.kept = (launch.kept /\ b # launch.out)
      /\ launch' \in Launch
  BY <1>1, <1>2 DEF Launch
<1>4. /\ val' = [d \in Buffer |-> val'[d]]
      /\ val'[b] = Fresh(b) /\ \A d \in Buffer \ {b} : val'[d] = val[d]
  BY <1>1, <1>2
<1>5. \A d \in Buffer : val'[d] \in Data(d)
  <2>1. Fresh(b) \in Data(b)
    BY DEF Fresh, Data
  <2> QED
    BY <1>2, <1>4, <2>1
<1>6. AddTypeOK'
  <2>1. launch'.todo # {} => launch'.out # Null /\ launch'.todo \subseteq Tid(size[launch'.out])
    BY <1>3 DEF AddInv, AddTypeOK
  <2> QED
    BY <1>1, <1>3, <1>4, <1>5, <2>1 DEF AddInv, AddTypeOK, Launch, Data
<1>7. DevicesAgree'
  BY <1>1, <1>3 DEF AddInv, DevicesAgree
<1>8. SumsRight'
  <2> SUFFICES ASSUME launch.out # Null, OnDevice(launch.in)
               PROVE  /\ launch.sums
                           = {x \in Tid(size[launch.out]) \ launch.todo : x <= size[launch.out]}
                      /\ launch.todo # {} /\ launch.kept /\ b # launch.out =>
                           \A x \in launch.sums : val'[launch.out][x] = "sum"
    BY <1>3 DEF SumsRight
  <2>1. launch.out \in Buffer
    BY <1>2 DEF Launch
  <2> QED
    BY <1>4, <2>1 DEF AddInv, SumsRight
<1>9. HostSeesNoSum'
  <2> SUFFICES ASSUME NEW d \in HostBuffer, NEW x \in DOMAIN val'[d]
               PROVE  val'[d][x] # "sum"
    BY DEF HostSeesNoSum
  <2>1. d \in Buffer
    BY AddAssumption
  <2>2. CASE d = b
    BY <1>4, <2>2 DEF Fresh
  <2>3. CASE d # b
    BY <1>4, <2>1, <2>3 DEF AddInv, HostSeesNoSum
  <2> QED
    BY <2>2, <2>3
<1> QED
  BY <1>6, <1>7, <1>8, <1>9 DEF AddInv

LEMMA ForwardInv ==
  ASSUME AddInv, Forward
  PROVE  AddInv'
PROOF
<1>1. /\ UNCHANGED <<device_type_, inputs_, output, backed, late, val, host>>
      /\ launch' = [in |-> inputs_, out |-> output, late |-> late, todo |-> Tid(size[output]),
                    sums |-> {}, kept |-> TRUE]
      /\ device_type_ = "GPU" /\ Fit
  BY DEF Forward, Started
<1>2. output \in Buffer /\ output # Null /\ late \subseteq Input
      /\ inputs_ \in [Input -> Buffer \cup {Null}]
  BY AddAssumption DEF AddInv, AddTypeOK
<1>3. Tid(size[output]) \subseteq Nat
  BY <1>2, BufferSize, TidType
<1>4. \A n \in Input : inputs_[n] \in Buffer
  BY <1>1, <1>2 DEF Fit
<1>5. AddTypeOK'
  BY <1>1, <1>2, <1>3 DEF AddInv, AddTypeOK
<1>6. DevicesAgree'
  <2>1. \A n \in Input : inputs_[n] \in HostBuffer => n \in late
    BY <1>1, <1>4, AddAssumption DEF AddInv, DevicesAgree, device_type
  <2> QED
    BY <1>1, <1>2, <1>4, <2>1 DEF AddInv, DevicesAgree
<1>7. SumsRight'
  BY <1>1 DEF SumsRight
<1> QED
  BY <1>1, <1>5, <1>6, <1>7 DEF AddInv, HostSeesNoSum

LEMMA MemcpyInv ==
  ASSUME AddInv, NEW b \in Buffer, NEW c \in Buffer, Memcpy(b, c)
  PROVE  AddInv'
PROOF
<1>1. /\ UNCHANGED <<device_type_, inputs_, output, backed, late, launch, host>>
      /\ val' = [val EXCEPT ![c] = [x \in DOMAIN @ |->
                   IF x < size[b] /\ x < size[c] THEN val[b][x] ELSE @[x]]]
      /\ b \in HostBuffer
      /\ c \notin HostBuffer => launch.todo = {}
  BY DEF Memcpy, Copied, Kind, device_type
<1>2. /\ val = [d \in Buffer |-> val[d]]
      /\ \A d \in Buffer : val[d] \in Data(d)
  BY DEF AddInv, AddTypeOK, Data
<1>3. /\ val' = [d \in Buffer |-> val'[d]]
      /\ \A d \in Buffer \ {c} : val'[d] = val[d]
      /\ val'[c] = [x \in Cell(c) |->
                     IF x < size[b] /\ x < size[c] THEN val[b][x] ELSE val[c][x]]
  BY <1>1, <1>2 DEF Data
<1>4. ASSUME NEW x \in Cell(c), x < size[b]
      PROVE  x \in Cell(b)
  BY <1>4, BufferSize DEF Cell
<1>5. \A d \in Buffer : val'[d] \in Data(d)
  BY <1>2, <1>3, <1>4 DEF Data
<1>6. AddTypeOK'
  BY <1>1, <1>3, <1>5 DEF AddInv, AddTypeOK, Data
<1>7. DevicesAgree'
  BY <1>1 DEF AddInv, DevicesAgree
<1>8. SumsRight'
  <2> SUFFICES ASSUME launch.todo # {}, launch.out # Null, OnDevice(launch.in), launch.kept
               PROVE  \A x \in launch.sums : val'[launch.out][x] = "sum"
    BY <1>1 DEF AddInv, SumsRight
  <2>1. c \in HostBuffer /\ launch.out # c /\ launch.out \in Buffer
    BY <1>1 DEF AddInv, AddTypeOK, DevicesAgree
  <2>2. val'[launch.out] = val[launch.out]
    BY <1>3, <2>1
  <2> QED
    BY <2>2 DEF AddInv, SumsRight
<1>9. HostSeesNoSum'
  <2> SUFFICES ASSUME NEW d \in HostBuffer, NEW x \in DOMAIN val'[d]
               PROVE  val'[d][x] # "sum"
    BY DEF HostSeesNoSum
  <2>1. d \in Buffer /\ \A y \in Cell(d) : val[d][y] # "sum"
    BY <1>2, AddAssumption DEF AddInv, HostSeesNoSum, Data
  <2>2. \A y \in Cell(b) : val[b][y] # "sum"
    BY <1>1, <1>2 DEF AddInv, HostSeesNoSum, Data
  <2>3. x \in Cell(d)
    BY <1>5, <2>1 DEF Data
  <2> QED
    BY <1>3, <1>4, <2>1, <2>2, <2>3
<1> QED
  BY <1>6, <1>7, <1>8, <1>9 DEF AddInv

LEMMA DeviceInv ==
  ASSUME AddInv, NEW tid \in Nat, RunThread(tid)
  PROVE  AddInv'
PROOF
<1> DEFINE o == launch.out
           n == size[o]
<1>1. /\ tid \in launch.todo
      /\ UNCHANGED <<device_type_, inputs_, output, backed, late, host>>
  BY DEF RunThread
<1>2. /\ o \in Buffer /\ launch.todo \subseteq Tid(n) /\ o \notin HostBuffer
      /\ launch \in Launch
      /\ val = [d \in Buffer |-> val[d]]
      /\ \A d \in Buffer : val[d] \in Data(d)
  BY <1>1 DEF AddInv, AddTypeOK, DevicesAgree, Launch, Data
<1>3. n \in Nat /\ tid \in Tid(n)
  BY <1>1, <1>2, BufferSize
<1>4. /\ launch'.in = launch.in /\ launch'.out = launch.out /\ launch'.late = launch.late
      /\ launch'.kept = launch.kept
      /\ launch' \in Launch
      /\ launch'.todo \subseteq launch.todo
  <2>1. /\ launch.todo \subseteq Nat /\ launch.todo \ {tid} \subseteq Nat
        /\ launch.sums \subseteq Nat /\ launch.sums \cup {tid} \subseteq Nat
    BY <1>2 DEF Launch
  <2>2. CASE launch' = [launch EXCEPT !.todo = @ \ {tid}]
    BY <1>2, <2>1, <2>2 DEF Launch
  <2>3. CASE launch' = [launch EXCEPT !.todo = @ \ {tid}, !.sums = @ \cup {tid}]
    BY <1>2, <2>1, <2>3 DEF Launch
  <2>4. CASE launch' = [launch EXCEPT !.todo = {}]
    BY <1>2, <2>1, <2>4 DEF Launch
  <2> QED
    BY <2>2, <2>3, <2>4 DEF RunThread
<1>5. OnDevice(launch.in) =>
        /\ launch'.todo = launch.todo \ {tid}
        /\ launch'.sums = IF tid > n THEN launch.sums ELSE launch.sums \cup {tid}
  BY <1>2 DEF RunThread, Returns, Launch
<1>6. \/ val' = val /\ (OnDevice(launch.in) /\ launch.kept => tid > n)
      \/ tid <= n /\ val' = [val EXCEPT ![o][tid] = "sum"]
  BY <1>3 DEF RunThread, Returns, Tid
<1>7. tid <= n => tid \in Cell(o)
  BY <1>3 DEF Cell
<1>8. /\ val' = [d \in Buffer |-> val'[d]]
      /\ \A d \in Buffer : val'[d] \in Data(d)
      /\ \A d \in Buffer \ {o} : val'[d] = val[d]
  BY <1>2, <1>6, <1>7 DEF Data
<1>9. ASSUME OnDevice(launch.in), launch.kept
      PROVE  /\ tid <= n => val'[o][tid] = "sum"
             /\ \A x \in Cell(o) : val[o][x] = "sum" => val'[o][x] = "sum"
  <2>1. CASE val' = val /\ tid > n
    BY <1>3, <2>1 DEF Tid
  <2>2. CASE tid <= n /\ val' = [val EXCEPT ![o][tid] = "sum"]
    BY <1>2, <1>7, <2>2 DEF Data
  <2> QED
    BY <1>6, <1>9, <2>1, <2>2
<1>10. AddTypeOK'
  <2>1. launch'.todo # {} => launch'.out # Null /\ launch'.todo \subseteq Tid(size[launch'.out])
    BY <1>1, <1>2, <1>4 DEF AddInv, AddTypeOK
  <2> QED
    BY <1>1, <1>4, <1>8, <2>1 DEF AddInv, AddTypeOK, Launch, Data
<1>11. DevicesAgree'
  BY <1>1, <1>4 DEF AddInv, DevicesAgree
<1>12. SumsRight'
  <2> SUFFICES ASSUME OnDevice(launch.in)
               PROVE  /\ launch'.sums = {x \in Tid(n) \ launch'.todo : x <= n}
                      /\ launch.kept => \A x \in launch'.sums : val'[o][x] = "sum"
    BY <1>4 DEF SumsRight
  <2>1. /\ launch.sums = {x \in Tid(n) \ launch.todo : x <= n}
        /\ launch.kept => \A x \in launch.sums : val[o][x] = "sum"
    BY <1>1, <1>2 DEF AddInv, SumsRight, AddTypeOK
  <2>2. launch'.sums = {x \in Tid(n) \ launch'.todo : x <= n}
    <3>1. CASE tid > n
      <4>1. ~(tid <= n)
        BY <1>3, <3>1
      <4> QED
        BY <1>5, <2>1, <3>1, <4>1
    <3>2. CASE ~(tid > n)
      <4>1. tid <= n
        BY <1>3, <3>2
      <4> QED
        BY <1>1, <1>3, <1>5, <2>1, <3>2, <4>1
    <3> QED
      BY <3>1, <3>2
  <2>3. ASSUME launch.kept, NEW x \in launch'.sums
        PROVE  val'[o][x] = "sum"
    <3>1. x \in Tid(n) /\ x <= n /\ (x # tid => x \in launch.sums)
      BY <1>5, <2>1, <2>2
    <3>2. x \in Cell(o)
      BY <1>3, <3>1 DEF Cell, Tid
    <3> QED
      BY <1>9, <2>1, <2>3, <3>1, <3>2
  <2> QED
    BY <2>2, <2>3
<1>13. HostSeesNoSum'
  BY <1>2, <1>8, AddAssumption DEF AddInv, HostSeesNoSum
<1> QED
  BY <1>10, <1>11, <1>12, <1>13 DEF AddInv

LEMMA AddInvariant == AddSpec => []AddInv
PROOF
<1>1. AddInit => AddInv
  BY AddInitInv
<1>2. AddInv /\ [AddNext]_addVars => AddInv'
  <2> SUFFICES ASSUME AddInv, [AddNext]_addVars PROVE AddInv'
    OBVIOUS
  <2>1. CASE HostStep
    <3>1. CASE Forward
      BY <3>1, ForwardInv
    <3>2. CASE \E b, c \in Buffer : Memcpy(b, c)
      BY <3>2, MemcpyInv
    <3>3. CASE \E b \in Buffer : Allocate(b)
      BY <3>3, AllocateInv
    <3>4. CASE Stop \/ \E idx \in -1 .. 2, b \in Buffer : SetInput(idx, b)
      BY <3>4, HostInv
    <3> QED
      BY <2>1, <3>1, <3>2, <3>3, <3>4 DEF HostStep, ForwardFails, MemcpyFails
  <2>2. CASE DeviceStep
    BY <2>2, DeviceInv, BufferSize, TidType DEF DeviceStep
  <2>3. CASE UNCHANGED addVars
    BY <2>3 DEF addVars, AddInv, AddTypeOK, DevicesAgree, SumsRight, HostSeesNoSum
  <2> QED
    BY <2>1, <2>2, <2>3 DEF AddNext
<1> QED
  BY <1>1, <1>2, PTL DEF AddSpec

(* The types of the layer's state, for any Buffers and sizes.              *)
THEOREM AddTypeCorrect == AddSpec => []AddTypeOK
PROOF
<1>1. AddInv => AddTypeOK
  BY DEF AddInv
<1> QED
  BY <1>1, AddInvariant, PTL

(* Only an input that had no memory when it was set brings host memory      *)
(* under the kernel.                                                       *)
THEOREM OnlyLateInputsMisplaced == AddSpec => []KernelReadsDevice
PROOF
<1>1. AddInv => KernelReadsDevice
  BY DEF AddInv, DevicesAgree, KernelReadsDevice
<1> QED
  BY <1>1, AddInvariant, PTL

(* For every size and every block size, a kernel on device memory writes    *)
(* the sum of each element, and of the one behind the last unless the       *)
(* elements fill the blocks, in every order of the threads and of the       *)
(* host's steps.                                                           *)
THEOREM KernelAddsOneTooMany == AddSpec => []AddsOneTooMany
PROOF
<1>1. AddInv => AddsOneTooMany
  <2> SUFFICES ASSUME AddInv, launch.out # Null, OnDevice(launch.in)
               PROVE  LET n == size[launch.out]
                      IN  /\ launch.sums \subseteq 0 .. n
                          /\ launch.todo = {} =>
                               launch.sums = IF n % thread_num = 0 THEN 0 .. n - 1 ELSE 0 .. n
                          /\ launch.todo # {} /\ launch.kept =>
                               \A x \in launch.sums : val[launch.out][x] = "sum"
    BY DEF AddsOneTooMany
  <2> DEFINE n == size[launch.out]
  <2>1. launch.out \in Buffer
    BY DEF AddInv, AddTypeOK
  <2>2. n \in Nat
    BY <2>1, BufferSize
  <2>3. launch.sums = {x \in Tid(n) \ launch.todo : x <= n}
    BY DEF AddInv, SumsRight
  <2>4. launch.sums \subseteq 0 .. n
    BY <2>2, <2>3, TidType
  <2>5. launch.todo = {} => launch.sums = {x \in Tid(n) : x <= n}
    BY <2>3
  <2>6. launch.todo # {} /\ launch.kept => \A x \in launch.sums : val[launch.out][x] = "sum"
    BY DEF AddInv, SumsRight
  <2> QED
    BY <2>2, <2>4, <2>5, <2>6, Grid
<1> QED
  BY <1>1, AddInvariant, PTL

(* No sum reaches the host's memory.                                       *)
THEOREM SumsStayOnDevice == AddSpec => []HostSeesNoSum
PROOF
<1>1. AddInv => HostSeesNoSum
  BY DEF AddInv
<1> QED
  BY <1>1, AddInvariant, PTL
=============================================================================
