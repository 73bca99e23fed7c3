------------------------------ MODULE ModelLoad -------------------------------
(***************************************************************************)
(* model::Model reads the head of a model file (source/model/model.cpp) and *)
(* LLama2Model makes its layers from it (source/model/llama3.cpp, with      *)
(* LayerParam::set_weight of source/op/layer.cpp).                         *)
(*                                                                         *)
(* External are the file system, where a file may be replaced by another    *)
(* (rename) at any moment, short files, the limit on open descriptors, and  *)
(* the caller, who reads and creates as often as he likes.  config_ is      *)
(* taken to point to a configuration of zeros, and the end of              *)
(* read_model_file, where a return is missing, to return success.  The      *)
(* fields of the header may have any sign: nothing looks at it.  An int     *)
(* wraps around as the build does it, division rounds towards zero, and an  *)
(* int becomes a size_t by sign extension.  CHECK(weight.assign(buffer)) of *)
(* set_weight, a function that is nowhere defined, is taken to pass.        *)
(***************************************************************************)
EXTENDS Integers, Sequences

CONSTANTS
  Files,      \* the files that may lie at the path
  MaxOpen,    \* the descriptors a process may have open
  MaxCreate,  \* bound on the calls of create_param_layers
  IntLimit,   \* 2^31
  SizeLimit   \* 2^64

Int32 == -IntLimit .. IntLimit - 1

Config ==
  [dim : Int32, layer_num : Int32, head_num : Int32, kv_head_num : Int32, vocab_size : Int32]

ASSUME LoadAssumption ==
  /\ Files \subseteq [config : Config, group_size : Int32, entire : BOOLEAN]
  /\ Files # {}
  /\ MaxOpen \in Nat
  /\ MaxCreate \in Nat
  /\ IntLimit \in Nat /\ IntLimit > 1
  /\ SizeLimit \in Nat \ {0}
  /\ 2 * IntLimit <= SizeLimit

VARIABLES
  id_quant_model_,
  content,       \* the file at the path
  step,          \* the next line of read_model_file
  file,          \* the file that was opened by fopen
  descriptors,   \* the descriptors open, by open or by fopen
  reads,         \* history: the reads that succeeded
  status,        \* what the last read returned: "none", "ok" or "error"
  config_,       \* the TransformerConfig
  group_size_,
  wq_layers_,    \* the weight of each query layer: offset and dimension
  created        \* history: the configuration of each create_param_layers, and how many
                 \* layers there were before it

loadVars == <<id_quant_model_, content, step, file, descriptors, reads, status, config_,
              group_size_, wq_layers_, created>>

Abs(n) == IF n < 0 THEN -n ELSE n

(* What the expression of type int yields when n is its true value.         *)
Wrapped(n) == ((n + IntLimit) % (2 * IntLimit)) - IntLimit

(* std::abs, which leaves the lowest int as it is.                         *)
CAbs(n) == Wrapped(Abs(n))

(* Division of ints.                                                       *)
CDiv(a, b) ==
  IF a < 0 <=> b < 0 THEN Abs(a) \div Abs(b) ELSE -(Abs(a) \div Abs(b))

ToSize(n) == n % SizeLimit

NoInfos ==
  [dim_ |-> 0, layer_num_ |-> 0, head_num_ |-> 0, kv_head_num_ |-> 0, kv_dim_ |-> 0,
   kv_mul_ |-> 0, head_size_ |-> 0, is_shared_weight_ |-> FALSE, vocab_size_ |-> 0]

LoadInit ==
  /\ id_quant_model_ \in BOOLEAN
  /\ content \in Files
  /\ step = "idle"
  /\ file \in Files
  /\ descriptors = 0
  /\ reads = 0
  /\ status = "none"
  /\ config_ = NoInfos
  /\ group_size_ = 1
  /\ wq_layers_ = <<>>
  /\ created = <<>>

(* Someone puts another file at the path.                                  *)
ReplaceFile ==
  /\ \E f \in Files : content' = f
  /\ UNCHANGED <<id_quant_model_, step, file, descriptors, reads, status, config_,
                 group_size_, wq_layers_, created>>

(* A descriptor is opened, or the read ends: nothing is closed.  (With an   *)
(* empty path the read ends before this, and nothing changes.)             *)
Open(next) ==
  \/ /\ descriptors < MaxOpen
     /\ descriptors' = descriptors + 1
     /\ step' = next
     /\ UNCHANGED status
  \/ /\ step' = "idle"
     /\ status' = "error"
     /\ UNCHANGED descriptors

OpenDescriptor ==
  /\ step = "idle"
  /\ Open("fopen")
  /\ UNCHANGED <<id_quant_model_, content, file, reads, config_, group_size_, wq_layers_,
                 created>>

OpenFile ==
  /\ step = "fopen"
  /\ Open("config")
  /\ file' = content
  /\ UNCHANGED <<id_quant_model_, content, reads, config_, group_size_, wq_layers_, created>>

ReadConfig ==
  /\ step = "config"
  /\ \/ /\ step' = IF id_quant_model_ THEN "group" ELSE "infos"
        /\ UNCHANGED status
     \/ /\ ~file.entire
        /\ step' = "idle"
        /\ status' = "error"
  /\ UNCHANGED <<id_quant_model_, content, file, descriptors, reads, config_, group_size_,
                 wq_layers_, created>>

(* Mutant of ReadGroup: it is read from what lies at the path now.          *)
ReadGroupAgain ==
  /\ step = "group"
  /\ step' = "infos"
  /\ group_size_' = content.group_size
  /\ UNCHANGED <<id_quant_model_, content, file, descriptors, reads, status, config_,
                 wq_layers_, created>>

(* group_size_ is read into its place: a short read leaves it undefined.    *)
ReadGroup ==
  /\ step = "group"
  /\ \/ /\ step' = "infos"
        /\ group_size_' = file.group_size
        /\ UNCHANGED status
     \/ /\ ~file.entire
        /\ step' = "idle"
        /\ status' = "error"
        /\ group_size_' \in {group_size_} \cup {f.group_size : f \in Files}
  /\ UNCHANGED <<id_quant_model_, content, file, descriptors, reads, config_, wq_layers_,
                 created>>

(* Mutant of KvDim: the two numbers of heads are confused.                 *)
KvDimSwapped(c) == CDiv(Wrapped(c.dim * c.head_num), c.kv_head_num)

KvDim(c) == CDiv(Wrapped(c.dim * c.kv_head_num), c.head_num)

Infos(c) ==
  [dim_ |-> c.dim, layer_num_ |-> c.layer_num, head_num_ |-> c.head_num,
   kv_head_num_ |-> c.kv_head_num, kv_dim_ |-> KvDim(c),
   kv_mul_ |-> CDiv(c.head_num, c.kv_head_num), head_size_ |-> CDiv(c.dim, c.head_num),
   is_shared_weight_ |-> c.vocab_size > 0, vocab_size_ |-> CAbs(c.vocab_size)]

(* An integer division the processor refuses: by zero, or of the lowest int *)
(* by -1.                                                                  *)
Traps(a, b) == b = 0 \/ (a = -IntLimit /\ b = -1)

Deadly(c) ==
  \/ Traps(Wrapped(c.dim * c.kv_head_num), c.head_num)
  \/ Traps(c.head_num, c.kv_head_num)
  \/ Traps(c.dim, c.head_num)

(* Mutant of GenerateInfos: both descriptors are closed.                   *)
GenerateInfosCloses ==
  /\ step = "infos"
  /\ ~Deadly(file.config)
  /\ config_' = Infos(file.config)
  /\ step' = "idle"
  /\ status' = "ok"
  /\ reads' = reads + 1
  /\ descriptors' = descriptors - 2
  /\ UNCHANGED <<id_quant_model_, content, file, group_size_, wq_layers_, created>>

(* generate_model_infos divides values from the file: the process dies of   *)
(* a division that traps.                                                  *)
GenerateInfos ==
  /\ step = "infos"
  /\ IF Deadly(file.config)
       THEN /\ step' = "dead"
            /\ UNCHANGED <<config_, status, reads>>
       ELSE /\ config_' = Infos(file.config)
            /\ step' = "idle"
            /\ status' = "ok"
            /\ reads' = reads + 1
  /\ UNCHANGED <<id_quant_model_, content, file, descriptors, group_size_, wq_layers_, created>>

(* pos before the loop over the layers, and what an iteration adds to it.   *)
FirstPos(c) == ToSize(Wrapped(c.dim_ * CAbs(c.vocab_size_) + c.dim_ * c.layer_num_))

Advance(c) == Wrapped(c.dim_ * c.dim_)

Layer(c, pos) == [pos |-> ToSize(pos), dim |-> c.dim_]

(* Mutant of Layers: pos advances by a row.                                *)
LayersByRow(c) == [n \in 1 .. c.layer_num_ |-> Layer(c, FirstPos(c) + (n - 1) * c.dim_)]

(* The query layers, with their weights as views of the file; none if their *)
(* number is negative.                                                     *)
Layers(c) == [n \in 1 .. c.layer_num_ |-> Layer(c, FirstPos(c) + (n - 1) * Advance(c))]

(* wq_layers_ is appended to, whatever it holds, and whether or not a file  *)
(* has been read.                                                          *)
CreateParamLayers ==
  /\ step = "idle"
  /\ Len(created) < MaxCreate
  /\ wq_layers_' = wq_layers_ \o Layers(config_)
  /\ created' = Append(created, [config |-> config_, first |-> Len(wq_layers_)])
  /\ UNCHANGED <<id_quant_model_, content, step, file, descriptors, reads, status, config_,
                 group_size_>>

LoadNext ==
  \/ ReplaceFile
  \/ OpenDescriptor
  \/ OpenFile
  \/ ReadConfig
  \/ ReadGroup
  \/ GenerateInfos
  \/ CreateParamLayers

LoadSpec == LoadInit /\ [][LoadNext]_loadVars

-----------------------------------------------------------------------------
TransformerConfig ==
  [dim_ : Int32, layer_num_ : Int32, head_num_ : Int32, kv_head_num_ : Int32, kv_dim_ : Int32,
   kv_mul_ : Int32, head_size_ : Int32, is_shared_weight_ : BOOLEAN, vocab_size_ : Int32]

(* The variables keep their shape.                                         *)
LoadTypeOK ==
  /\ id_quant_model_ \in BOOLEAN
  /\ content \in Files
  /\ step \in {"idle", "fopen", "config", "group", "infos", "dead"}
  /\ file \in Files
  /\ descriptors \in 0 .. MaxOpen
  /\ reads \in Nat
  /\ status \in {"none", "ok", "error"}
  /\ config_ \in TransformerConfig
  /\ reads > 0 => config_.head_num_ # 0 /\ config_.kv_head_num_ # 0
  /\ group_size_ \in Int32
  /\ wq_layers_ \in Seq([pos : 0 .. SizeLimit - 1, dim : Int32])
  /\ created \in Seq([config : TransformerConfig, first : Nat])

(* After a read that succeeded the configuration and the group size are of  *)
(* one file, whatever happened to the path during the read, to earlier      *)
(* reads, or since (model.cpp:19-35).                                      *)
OneFile ==
  status = "ok" /\ step = "idle" =>
    /\ config_ = Infos(file.config)
    /\ id_quant_model_ => group_size_ = file.group_size

(* Nothing is ever closed (model.cpp:12-40): every read that succeeds costs *)
(* the process two descriptors, and failing ones up to two more, so the     *)
(* number of times a model can be read is half their limit.                *)
ReadsRunOut == 2 * reads <= descriptors /\ descriptors <= MaxOpen

(* The heads fit into the dimensions computed for them, whatever the signs  *)
(* in the file, unless an int overflows: the key and value heads into       *)
(* kv_dim_, and kv_mul_ times as many query heads into dim_; exactly where  *)
(* the divisions leave no rest (model.cpp:55-59).                          *)
HeadsFit ==
  reads > 0 /\ Abs(config_.dim_ * config_.kv_head_num_) < IntLimit =>
    LET whole == /\ Abs(config_.dim_) % Abs(config_.head_num_) = 0
                 /\ Abs(config_.head_num_) % Abs(config_.kv_head_num_) = 0
    IN  /\ Abs(config_.head_size_ * config_.kv_head_num_) <= Abs(config_.kv_dim_)
        /\ Abs(config_.kv_mul_ * config_.kv_dim_) <= Abs(config_.dim_)
        /\ whole => /\ config_.head_size_ * config_.kv_head_num_ = config_.kv_dim_
                    /\ config_.kv_mul_ * config_.kv_dim_ = config_.dim_

(* Where the first layer's weight should begin: behind the embedding table  *)
(* and the first norms.                                                    *)
Start(c) == c.dim_ * c.vocab_size_ + c.dim_ * c.layer_num_

(* pos and what is added to it are computed in 32 bits (llama3.cpp:18, 26). *)
Small(c) ==
  /\ Start(c) < IntLimit
  /\ c.dim_ * c.dim_ < IntLimit
  /\ Start(c) + c.layer_num_ * c.dim_ * c.dim_ < SizeLimit

(* The layers of every call of create_param_layers stay behind those of the *)
(* calls before it, so that wq_layers_[i] is the layer i only of the first  *)
(* call.  With dimensions that are not negative, the weights of a call lie  *)
(* behind the embedding table and do not overlap where the offsets fit into *)
(* an int, and where the first offset just does not fit it points almost    *)
(* 2^64 further (llama3.cpp:11-27).                                        *)
WeightsDisjoint ==
  \A k \in 1 .. Len(created) :
    LET c == created[k].config
        first == created[k].first
    IN  \A n \in 1 .. c.layer_num_ :
          /\ first + n <= Len(wq_layers_)
          /\ wq_layers_[first + n].dim = c.dim_
          /\ c.dim_ >= 0 /\ c.vocab_size_ >= 0 /\ Small(c) =>
               /\ c.vocab_size_ * c.dim_ <= wq_layers_[first + n].pos
               /\ \A m \in 1 .. n - 1 :
                    wq_layers_[first + m].pos + c.dim_ * c.dim_ <= wq_layers_[first + n].pos
          /\ c.vocab_size_ >= 0 /\ Start(c) \in IntLimit .. 2 * IntLimit - 1 =>
               wq_layers_[first + 1].pos >= SizeLimit - IntLimit
=============================================================================
