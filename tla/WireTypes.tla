----------------------------- MODULE WireTypes -----------------------------
(***************************************************************************)
(* The byte formats of the node: for every serialized type, the sequence   *)
(* of fields its `write` emits (a definition ending in W) and the sequence *)
(* its `read` expects (ending in R), taken separately from the two         *)
(* functions, and the generic writer and reader that interpret them.  A    *)
(* buffer is a sequence of tokens [w |-> bytes, v |-> value]; lengths are   *)
(* counted in bytes.  Types both directions of which share one             *)
(* implementation (an array of bytes, an integer) are primitives.          *)
(*                                                                         *)
(* A struct is a record, an enum value the pair <<variant, payload>>, a    *)
(* vector a sequence.  Hashes and signatures are sequences, the empty one  *)
(* standing for the all-zero array; other arrays and integers are numbers. *)
(***************************************************************************)
EXTENDS Integers, Sequences, SequencesExt

CONSTANTS
    MaxFailedIters,   \* MESSAGE_MAX_FAILED_ITERATIONS
    MaxMemo           \* MAX_MEMO_SIZE

-----------------------------------------------------------------------------
(* Format descriptors.                                                     *)

Prim(w) == [k |-> "prim", w |-> w]
Struct(fs) == [k |-> "struct", fs |-> fs]

(* tags is a sequence of <<code, variant, format of the payload>>; other   *)
(* is the variant an unknown code is read as, "" if it is refused.         *)
Enum(w, tags, other) == [k |-> "enum", w |-> w, tags |-> tags, other |-> other]

(* A vector preceded by its number of elements; at most max are read.      *)
List(w, of, max) == [k |-> "list", w |-> w, of |-> of, max |-> max]

(* A value preceded by its number of bytes.                                *)
Blob(w, of) == [k |-> "blob", w |-> w, of |-> of]

(* A key left out when it equals another field of the struct.              *)
Unless(field, of) == [k |-> "unless", field |-> field, of |-> of]

(* A value that must end the buffer it is read from.                       *)
AtEnd(of) == [k |-> "last", of |-> of]

Unit == Struct(<<>>)
Unlimited == 2147483647

U8 == Prim(1)
U16 == Prim(2)
U32 == Prim(4)
U64 == Prim(8)
Bytes32 == Prim(32)
Sig48 == Prim(48)
Key96 == Prim(96)
Vec == List(8, U8, Unlimited)

-----------------------------------------------------------------------------
(* Tokens.                                                                 *)

Tok(w, v) == [w |-> w, v |-> v]

RECURSIVE Width(_)
Width(b) == IF b = <<>> THEN 0 ELSE Head(b).w + Width(Tail(b))

(* `len() as u8` and `as u32`: only the first can lose anything here.      *)
Truncated(n, w) == IF w = 1 THEN n % 256 ELSE n

(* The first n bytes of b as a pair <<taken, rest>>, when the cut falls    *)
(* between two tokens; read_exact fails when fewer than n bytes are left.  *)
RECURSIVE SplitAt(_, _)
SplitAt(b, n) ==
    IF n = 0 THEN [ok |-> TRUE, taken |-> <<>>, rest |-> b]
    ELSE IF b = <<>> \/ Head(b).w > n THEN [ok |-> FALSE]
    ELSE LET s == SplitAt(Tail(b), n - Head(b).w)
         IN IF s.ok THEN [s EXCEPT !.taken = <<Head(b)>> \o @] ELSE s

-----------------------------------------------------------------------------
(* The writer.                                                             *)

RECURSIVE WriteAs(_, _)
WriteField(rec, name, f) ==
    IF f.k = "unless"
    THEN IF rec[name] = rec[f.field] THEN <<Tok(1, 0)>>
         ELSE <<Tok(1, 1)>> \o WriteAs(f.of, rec[name])
    ELSE WriteAs(f, rec[name])

WriteAs(f, v) ==
    CASE f.k = "prim" -> <<Tok(f.w, v)>>
      [] f.k = "struct" ->
            FlattenSeq([i \in DOMAIN f.fs |->
                            WriteField(v, f.fs[i][1], f.fs[i][2])])
      [] f.k = "enum" ->
            LET i == CHOOSE j \in DOMAIN f.tags : f.tags[j][2] = v[1]
            IN <<Tok(f.w, f.tags[i][1])>> \o WriteAs(f.tags[i][3], v[2])
      [] f.k = "list" ->
            <<Tok(f.w, Truncated(Len(v), f.w))>>
                \o FlattenSeq([i \in DOMAIN v |-> WriteAs(f.of, v[i])])
      [] f.k = "blob" ->
            LET b == WriteAs(f.of, v) IN <<Tok(f.w, Width(b))>> \o b
      [] f.k = "last" -> WriteAs(f.of, v)

-----------------------------------------------------------------------------
(* The reader: [ok, v, rest].  A read that does not meet a token of its    *)
(* own width yields nothing the writer wrote, and counts as refused, save  *)
(* that the low half of a zero u64 is a zero u32.                          *)

Refused == [ok |-> FALSE]
Got(v, rest) == [ok |-> TRUE, v |-> v, rest |-> rest]

ReadPrim(w, b) ==
    IF b = <<>> THEN Refused
    ELSE IF Head(b).w = w THEN Got(Head(b).v, Tail(b))
    ELSE IF w = 4 /\ Head(b).w = 8 /\ Head(b).v = 0
         THEN Got(0, <<Tok(4, 0)>> \o Tail(b))
    ELSE Refused

RECURSIVE ReadAs(_, _)
RECURSIVE ReadFields(_, _, _, _)
RECURSIVE ReadItems(_, _, _, _)

ReadUnless(rec, f, b) ==
    LET flag == ReadPrim(1, b)
    IN IF ~flag.ok \/ flag.v \notin {0, 1} THEN Refused
       ELSE IF flag.v = 0 THEN Got(rec[f.field], flag.rest)
       ELSE ReadAs(f.of, flag.rest)

ReadFields(fs, i, rec, b) ==
    IF i > Len(fs) THEN Got(rec, b)
    ELSE LET f == fs[i][2]
             r == IF f.k = "unless" THEN ReadUnless(rec, f, b) ELSE ReadAs(f, b)
         IN IF ~r.ok THEN Refused
            ELSE ReadFields(fs, i + 1,
                            [n \in DOMAIN rec \cup {fs[i][1]} |->
                                IF n = fs[i][1] THEN r.v ELSE rec[n]],
                            r.rest)

ReadItems(f, n, items, b) ==
    IF n = 0 THEN Got(items, b)
    ELSE LET r == ReadAs(f, b)
         IN IF r.ok THEN ReadItems(f, n - 1, Append(items, r.v), r.rest)
            ELSE Refused

ReadList(f, b) ==
    LET n == ReadPrim(f.w, b)
    IN IF ~n.ok \/ n.v > f.max THEN Refused
       ELSE ReadItems(f.of, n.v, <<>>, n.rest)

ReadEnum(f, b) ==
    LET c == ReadPrim(f.w, b)
        at == {i \in DOMAIN f.tags : f.tags[i][1] = c.v}
    IN IF ~c.ok THEN Refused
       ELSE IF at # {}
            THEN LET i == CHOOSE j \in at : TRUE
                     r == ReadAs(f.tags[i][3], c.rest)
                 IN IF r.ok THEN Got(<<f.tags[i][2], r.v>>, r.rest) ELSE Refused
       ELSE IF f.other = "" THEN Refused
       ELSE Got(<<f.other, <<>>>>, c.rest)

ReadBlob(f, b) ==
    LET n == ReadPrim(f.w, b)
        s == SplitAt(n.rest, n.v)
        r == ReadAs(f.of, s.taken)
    IN IF ~n.ok THEN Refused
       ELSE IF ~s.ok THEN Refused
       ELSE IF ~r.ok THEN Refused
       ELSE Got(r.v, s.rest)

ReadAs(f, b) ==
    CASE f.k = "prim" -> ReadPrim(f.w, b)
      [] f.k = "struct" -> ReadFields(f.fs, 1, <<>>, b)
      [] f.k = "enum" -> ReadEnum(f, b)
      [] f.k = "list" -> ReadList(f, b)
      [] f.k = "blob" -> ReadBlob(f, b)
      [] f.k = "last" ->
            LET r == ReadAs(f.of, b)
            IN IF r.ok THEN (IF r.rest = <<>> THEN r ELSE Refused) ELSE Refused

-----------------------------------------------------------------------------
(* Votes and attestations.                                                 *)

ConsensusHeaderW == Struct(<<<<"prev_block_hash", Bytes32>>, <<"round", U64>>,
                             <<"iteration", U8>>>>)
ConsensusHeaderR == Struct(<<<<"prev_block_hash", Bytes32>>, <<"round", U64>>,
                             <<"iteration", U8>>>>)

VoteW == Enum(1, <<<<0, "NoCandidate", Unit>>, <<1, "Valid", Bytes32>>,
                   <<2, "Invalid", Bytes32>>, <<3, "NoQuorum", Unit>>>>, "")
VoteR == Enum(1, <<<<0, "NoCandidate", Unit>>, <<1, "Valid", Bytes32>>,
                   <<2, "Invalid", Bytes32>>, <<3, "NoQuorum", Unit>>>>, "")

StepVotesW == Struct(<<<<"bitset", U64>>, <<"aggregate_signature", Sig48>>>>)
StepVotesR == Struct(<<<<"bitset", U64>>, <<"aggregate_signature", Sig48>>>>)

RatificationResultW == Enum(1, <<<<0, "Fail", VoteW>>, <<1, "Success", VoteW>>>>, "")
RatificationResultR == Enum(1, <<<<0, "Fail", VoteR>>, <<1, "Success", VoteR>>>>, "")

AttestationW == Struct(<<<<"result", RatificationResultW>>,
                         <<"validation", StepVotesW>>,
                         <<"ratification", StepVotesW>>>>)
(* Mutated form of AttestationR: the lists of votes in the opposite order. *)
AttestationSwapped == Struct(<<<<"result", RatificationResultR>>,
                               <<"ratification", StepVotesR>>,
                               <<"validation", StepVotesR>>>>)
AttestationR == Struct(<<<<"result", RatificationResultR>>,
                         <<"validation", StepVotesR>>,
                         <<"ratification", StepVotesR>>>>)

QuorumTypeW == Enum(1, <<<<0, "Valid", Unit>>, <<1, "Invalid", Unit>>,
                         <<2, "NoCandidate", Unit>>, <<255, "NoQuorum", Unit>>>>, "")
QuorumTypeR == Enum(1, <<<<0, "Valid", Unit>>, <<1, "Invalid", Unit>>,
                         <<2, "NoCandidate", Unit>>>>, "NoQuorum")

ValidationResultW == Struct(<<<<"sv", StepVotesW>>, <<"vote", VoteW>>,
                              <<"quorum", QuorumTypeW>>>>)
ValidationResultR == Struct(<<<<"sv", StepVotesR>>, <<"vote", VoteR>>,
                              <<"quorum", QuorumTypeR>>>>)

SignInfoW == Struct(<<<<"signer", Key96>>, <<"signature", Sig48>>>>)
SignInfoR == Struct(<<<<"signer", Key96>>, <<"signature", Sig48>>>>)

-----------------------------------------------------------------------------
(* Consensus messages.                                                     *)

ValidationW == Struct(<<<<"header", ConsensusHeaderW>>, <<"vote", VoteW>>,
                        <<"sign_info", SignInfoW>>>>)
ValidationR == Struct(<<<<"header", ConsensusHeaderR>>, <<"vote", VoteR>>,
                        <<"sign_info", SignInfoR>>>>)

RatificationW == Struct(<<<<"header", ConsensusHeaderW>>, <<"vote", VoteW>>,
                          <<"timestamp", U64>>,
                          <<"validation_result", ValidationResultW>>,
                          <<"sign_info", SignInfoW>>>>)
RatificationR == Struct(<<<<"header", ConsensusHeaderR>>, <<"vote", VoteR>>,
                          <<"timestamp", U64>>,
                          <<"validation_result", ValidationResultR>>,
                          <<"sign_info", SignInfoR>>>>)

QuorumW == Struct(<<<<"header", ConsensusHeaderW>>, <<"att", AttestationW>>>>)
QuorumR == Struct(<<<<"header", ConsensusHeaderR>>, <<"att", AttestationR>>>>)

ValidationQuorumW == Struct(<<<<"header", ConsensusHeaderW>>,
                              <<"result", ValidationResultW>>>>)
ValidationQuorumR == Struct(<<<<"header", ConsensusHeaderR>>,
                              <<"result", ValidationResultR>>>>)

-----------------------------------------------------------------------------
(* Transactions: dusk-core's to_var_bytes and from_slice.                  *)

ContractCallW == Struct(<<<<"contract", Bytes32>>, <<"fn_name", Vec>>,
                          <<"fn_args", Vec>>>>)
ContractCallR == Struct(<<<<"contract", Bytes32>>, <<"fn_name", Vec>>,
                          <<"fn_args", Vec>>>>)

BytecodeW == Struct(<<<<"hash", Bytes32>>, <<"bytes", Vec>>>>)
BytecodeR == Struct(<<<<"hash", Bytes32>>, <<"bytes", Vec>>>>)

ContractDeployW ==
    Struct(<<<<"bytecode", BytecodeW>>, <<"owner", Vec>>,
             <<"init_args", Enum(1, <<<<0, "None", Unit>>, <<1, "Some", Vec>>>>, "")>>,
             <<"nonce", U64>>>>)
ContractDeployR ==
    Struct(<<<<"bytecode", BytecodeR>>, <<"owner", Vec>>,
             <<"init_args", Enum(1, <<<<0, "None", Unit>>, <<1, "Some", Vec>>>>, "")>>,
             <<"nonce", U64>>>>)

TransactionDataW ==
    Enum(1, <<<<0, "None", Unit>>, <<1, "Call", ContractCallW>>,
              <<2, "Deploy", ContractDeployW>>, <<3, "Memo", Vec>>>>, "")
TransactionDataR ==
    Enum(1, <<<<0, "None", Unit>>, <<1, "Call", ContractCallR>>,
              <<2, "Deploy", ContractDeployR>>,
              <<3, "Memo", AtEnd(List(8, U8, MaxMemo))>>>>, "")

MoonlightPayloadW ==
    Struct(<<<<"chain_id", U8>>, <<"sender", Key96>>,
             <<"receiver", Unless("sender", Key96)>>,
             <<"value", U64>>, <<"deposit", U64>>,
             <<"gas_limit", U64>>, <<"gas_price", U64>>,
             <<"refund_address", Unless("sender", Key96)>>,
             <<"nonce", U64>>, <<"data", TransactionDataW>>>>)
MoonlightPayloadR ==
    Struct(<<<<"chain_id", U8>>, <<"sender", Key96>>,
             <<"receiver", Unless("sender", Key96)>>,
             <<"value", U64>>, <<"deposit", U64>>,
             <<"gas_limit", U64>>, <<"gas_price", U64>>,
             <<"refund_address", Unless("sender", Key96)>>,
             <<"nonce", U64>>, <<"data", TransactionDataR>>>>)

MoonlightW == Struct(<<<<"payload", Blob(8, MoonlightPayloadW)>>,
                       <<"signature", Sig48>>>>)
MoonlightR == Struct(<<<<"payload", Blob(8, MoonlightPayloadR)>>,
                       <<"signature", AtEnd(Sig48)>>>>)

(* phoenix-core's TxSkeleton, of which the node reads the nullifiers.      *)
TxSkeleton == Struct(<<<<"root", Bytes32>>, <<"nullifiers", List(8, Bytes32, Unlimited)>>,
                       <<"max_fee", U64>>, <<"deposit", U64>>>>)

PhoenixFeeW == Struct(<<<<"gas_limit", U64>>, <<"gas_price", U64>>,
                        <<"stealth_address", Prim(64)>>, <<"sender", Prim(128)>>>>)
PhoenixFeeR == Struct(<<<<"gas_limit", U64>>, <<"gas_price", U64>>,
                        <<"stealth_address", Prim(64)>>, <<"sender", Prim(128)>>>>)

PhoenixPayloadW == Struct(<<<<"chain_id", U8>>, <<"tx_skeleton", Blob(8, TxSkeleton)>>,
                            <<"fee", PhoenixFeeW>>, <<"data", TransactionDataW>>>>)
PhoenixPayloadR == Struct(<<<<"chain_id", U8>>, <<"tx_skeleton", Blob(8, TxSkeleton)>>,
                            <<"fee", PhoenixFeeR>>, <<"data", TransactionDataR>>>>)

PhoenixW == Struct(<<<<"payload", Blob(8, PhoenixPayloadW)>>, <<"proof", Vec>>>>)
PhoenixR == Struct(<<<<"payload", Blob(8, PhoenixPayloadR)>>, <<"proof", Vec>>>>)

ProtocolTransactionW == Enum(1, <<<<0, "Phoenix", PhoenixW>>,
                                  <<1, "Moonlight", MoonlightW>>>>, "")
ProtocolTransactionR == Enum(1, <<<<0, "Phoenix", PhoenixR>>,
                                  <<1, "Moonlight", MoonlightR>>>>, "")

TransactionW == Struct(<<<<"version", U32>>, <<"type", U32>>,
                         <<"inner", Blob(4, ProtocolTransactionW)>>>>)
TransactionR == Struct(<<<<"version", U32>>, <<"type", U32>>,
                         <<"inner", Blob(4, ProtocolTransactionR)>>>>)

-----------------------------------------------------------------------------
(* Blocks.                                                                 *)

FaultDataW(data) == Struct(<<<<"header", ConsensusHeaderW>>, <<"sig", SignInfoW>>,
                             <<"data", data>>>>)
FaultDataR(data) == Struct(<<<<"header", ConsensusHeaderR>>, <<"sig", SignInfoR>>,
                             <<"data", data>>>>)
Pair(f) == Struct(<<<<"a", f>>, <<"b", f>>>>)

FaultW == Enum(1, <<<<0, "DoubleCandidate", Pair(FaultDataW(Bytes32))>>,
                    <<1, "DoubleRatificationVote", Pair(FaultDataW(VoteW))>>,
                    <<2, "DoubleValidationVote", Pair(FaultDataW(VoteW))>>>>, "")
FaultR == Enum(1, <<<<0, "DoubleCandidate", Pair(FaultDataR(Bytes32))>>,
                    <<1, "DoubleRatificationVote", Pair(FaultDataR(VoteR))>>,
                    <<2, "DoubleValidationVote", Pair(FaultDataR(VoteR))>>>>, "")

IterationInfoW == Struct(<<<<"att", AttestationW>>, <<"pk", Key96>>>>)
IterationInfoR == Struct(<<<<"att", AttestationR>>, <<"pk", Key96>>>>)

IterationsInfoW ==
    List(1, Enum(1, <<<<1, "Some", IterationInfoW>>, <<0, "None", Unit>>>>, ""), Unlimited)
IterationsInfoR ==
    List(1, Enum(1, <<<<0, "None", Unit>>, <<1, "Some", IterationInfoR>>>>, ""),
         MaxFailedIters)

HashableFieldsW ==
    <<<<"version", U8>>, <<"height", U64>>, <<"timestamp", U64>>,
      <<"prev_block_hash", Bytes32>>, <<"seed", Sig48>>, <<"state_hash", Bytes32>>,
      <<"event_bloom", Prim(256)>>, <<"generator_bls_pubkey", Key96>>,
      <<"txroot", Bytes32>>, <<"faultroot", Bytes32>>, <<"gas_limit", U64>>,
      <<"iteration", U8>>, <<"prev_block_cert", AttestationW>>,
      <<"failed_iterations", IterationsInfoW>>>>
HashableFieldsR ==
    <<<<"version", U8>>, <<"height", U64>>, <<"timestamp", U64>>,
      <<"prev_block_hash", Bytes32>>, <<"seed", Sig48>>, <<"state_hash", Bytes32>>,
      <<"event_bloom", Prim(256)>>, <<"generator_bls_pubkey", Key96>>,
      <<"txroot", Bytes32>>, <<"faultroot", Bytes32>>, <<"gas_limit", U64>>,
      <<"iteration", U8>>, <<"prev_block_cert", AttestationR>>,
      <<"failed_iterations", IterationsInfoR>>>>

HeaderW == Struct(HashableFieldsW \o <<<<"att", AttestationW>>, <<"hash", Bytes32>>,
                                       <<"signature", Sig48>>>>)
HeaderR == Struct(HashableFieldsR \o <<<<"att", AttestationR>>, <<"hash", Bytes32>>,
                                       <<"signature", Sig48>>>>)

BlockW == Struct(<<<<"header", HeaderW>>, <<"txs", List(4, TransactionW, Unlimited)>>,
                   <<"faults", List(4, FaultW, Unlimited)>>>>)
BlockR == Struct(<<<<"header", HeaderR>>, <<"txs", List(4, TransactionR, Unlimited)>>,
                   <<"faults", List(4, FaultR, Unlimited)>>>>)

-----------------------------------------------------------------------------
(* Data exchange messages.                                                 *)

InvW == Struct(<<<<"inv_list",
          List(4, Enum(1, <<<<0, "MempoolTx", Bytes32>>, <<1, "BlockFromHash", Bytes32>>,
                            <<2, "BlockFromHeight", U64>>,
                            <<3, "CandidateFromHash", Bytes32>>,
                            <<4, "CandidateFromIteration", ConsensusHeaderW>>,
                            <<5, "ValidationResult", ConsensusHeaderW>>>>, ""),
               Unlimited)>>,
          <<"max_entries", U16>>>>)
InvR == Struct(<<<<"inv_list",
          List(4, Enum(1, <<<<0, "MempoolTx", Bytes32>>, <<1, "BlockFromHash", Bytes32>>,
                            <<2, "BlockFromHeight", U64>>,
                            <<3, "CandidateFromHash", Bytes32>>,
                            <<4, "CandidateFromIteration", ConsensusHeaderR>>,
                            <<5, "ValidationResult", ConsensusHeaderR>>>>, ""),
               Unlimited)>>,
          <<"max_entries", U16>>>>)

GetMempoolW == Struct(<<<<"nonce", Prim(8)>>>>)
GetMempoolR == Struct(<<<<"nonce", Prim(8)>>>>)

GetBlocksW == Struct(<<<<"locator", Bytes32>>, <<"nonce", Prim(8)>>>>)
GetBlocksR == Struct(<<<<"locator", Bytes32>>, <<"nonce", Prim(8)>>>>)

SocketAddrW == Enum(1, <<<<4, "V4", Struct(<<<<"ip", Prim(4)>>, <<"port", U16>>>>)>>,
                         <<6, "V6", Struct(<<<<"ip", Prim(16)>>, <<"port", U16>>>>)>>>>, "")
SocketAddrR == Enum(1, <<<<4, "V4", Struct(<<<<"ip", Prim(4)>>, <<"port", U16>>>>)>>,
                         <<6, "V6", Struct(<<<<"ip", Prim(16)>>, <<"port", U16>>>>)>>>>, "")

GetResourceW == Struct(<<<<"inventory", InvW>>, <<"requester_addr", SocketAddrW>>,
                         <<"ttl_as_sec", U64>>, <<"hops_limit", U16>>>>)
GetResourceR == Struct(<<<<"inventory", InvR>>, <<"requester_addr", SocketAddrR>>,
                         <<"ttl_as_sec", U64>>, <<"hops_limit", U16>>>>)

-----------------------------------------------------------------------------
(* The message: a version, the topic's code, the payload.                  *)

VersionW == Struct(<<<<"maj", U8>>, <<"min", U16>>, <<"patch", U16>>>>)
VersionR == Struct(<<<<"maj", U8>>, <<"min", U16>>, <<"patch", U16>>>>)

PayloadW ==
    Enum(1, <<<<8, "GetResource", GetResourceW>>, <<9, "GetBlocks", GetBlocksW>>,
              <<13, "GetMempool", GetMempoolW>>, <<14, "Inv", InvW>>,
              <<10, "Tx", TransactionW>>, <<11, "Block", BlockW>>,
              <<16, "Candidate", BlockW>>, <<17, "Validation", ValidationW>>,
              <<18, "Ratification", RatificationW>>, <<19, "Quorum", QuorumW>>,
              <<20, "ValidationQuorum", ValidationQuorumW>>,
              <<255, "Unknown", Unit>>>>, "")
PayloadR ==
    Enum(1, <<<<8, "GetResource", GetResourceR>>, <<9, "GetBlocks", GetBlocksR>>,
              <<10, "Tx", TransactionR>>, <<11, "Block", BlockR>>,
              <<13, "GetMempool", GetMempoolR>>, <<14, "Inv", InvR>>,
              <<16, "Candidate", BlockR>>, <<17, "Validation", ValidationR>>,
              <<18, "Ratification", RatificationR>>, <<19, "Quorum", QuorumR>>,
              <<20, "ValidationQuorum", ValidationQuorumR>>>>, "")

MessageW == Struct(<<<<"version", VersionW>>, <<"payload", PayloadW>>>>)
MessageR == Struct(<<<<"version", VersionR>>, <<"payload", PayloadR>>>>)

-----------------------------------------------------------------------------
(* Records of the database.                                                *)

SpentFieldsW == Struct(<<<<"inner", TransactionW>>, <<"block_height", U64>>,
                         <<"gas_spent", U64>>>>)
SpentFieldsR == Struct(<<<<"inner", TransactionR>>, <<"block_height", U64>>,
                         <<"gas_spent", U64>>>>)
ErrorText == List(4, U8, Unlimited)

(* No error is written as a u64 zero and read as a u32 length of zero: the *)
(* last four bytes of the record are never read.                           *)
WriteSpent(t) ==
    WriteAs(SpentFieldsW, t)
        \o IF t.err[1] = "None" THEN <<Tok(8, 0)>> ELSE WriteAs(ErrorText, t.err[2])

ReadSpent(b) ==
    LET r == ReadAs(SpentFieldsR, b)
        e == ReadAs(ErrorText, r.rest)
    IN IF ~r.ok THEN Refused
       ELSE IF ~e.ok THEN Refused
       ELSE Got([inner |-> r.v.inner, block_height |-> r.v.block_height,
                 gas_spent |-> r.v.gas_spent,
                 err |-> IF e.v = <<>> THEN <<"None", <<>>>> ELSE <<"Some", e.v>>],
                e.rest)

LabelW == Enum(1, <<<<0, "Accepted", U64>>, <<1, "Attested", U64>>,
                    <<2, "Confirmed", U64>>, <<3, "Final", U64>>>>, "")
LabelR == Enum(1, <<<<0, "Accepted", U64>>, <<1, "Attested", U64>>,
                    <<2, "Confirmed", U64>>, <<3, "Final", U64>>>>, "")

LightBlockW == Struct(<<<<"header", HeaderW>>,
                        <<"transactions_ids", List(4, Bytes32, Unlimited)>>,
                        <<"faults_ids", List(4, Bytes32, Unlimited)>>>>)
LightBlockR == Struct(<<<<"header", HeaderR>>,
                        <<"transactions_ids", List(4, Bytes32, Unlimited)>>,
                        <<"faults_ids", List(4, Bytes32, Unlimited)>>>>)
=============================================================================
