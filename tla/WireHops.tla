----------------------------- MODULE WireHops ------------------------------
(***************************************************************************)
(* A message on its way through the network: built by one node, written,   *)
(* carried by Kadcast (which may deliver it cut short), read by the next   *)
(* node, and there relayed, forwarded with one hop less, completed with an *)
(* attestation, or kept in the database and served again.                  *)
(***************************************************************************)
EXTENDS WireTypes, FiniteSets

CONSTANTS
    Payloads,     \* the payloads nodes build: pairs <<topic, value>>
    Votes,        \* the votes a provisioner may sign
    NewAtt,       \* the attestation a quorum attaches to a candidate
    KadHeight,    \* the largest Kadcast height of a broadcast
    MaxSends      \* bound on the number of transmissions followed

VARIABLES
    origin,    \* the message as it was built
    meant,     \* what the message at hand should be
    held,      \* <<m>> when a node holds message m, <<>> otherwise
    wire,      \* the bytes in flight
    cut,       \* whether the bytes in flight, or last received, were cut short
    kad,       \* the Kadcast height of the message at hand (metadata.height)
    sends,     \* how many times the message was put on the wire
    record     \* what the database of the node keeps of a block

wireVars == <<origin, meant, held, wire, cut, kad, sends, record>>

-----------------------------------------------------------------------------
(* Blocks: the hash covers the hashable fields of the header.  sha3 is     *)
(* taken to be injective: a hash is the text that was hashed.              *)

(* Header::calculate_hash.                                                 *)
HashOf(header) == WriteAs(Struct(HashableFieldsW), header)

(* Block::new computes the hash only when there is none.                   *)
BlockNew(header, txs, faults) ==
    [header |-> IF header.hash = <<>> THEN [header EXCEPT !.hash = HashOf(header)]
                ELSE header,
     txs |-> txs, faults |-> faults]

SetAttestation(block, att) == [block EXCEPT !.header.att = att]

-----------------------------------------------------------------------------
(* Messages.                                                               *)

DefaultHeader == [prev_block_hash |-> <<>>, round |-> 0, iteration |-> 0]

ToConsensusHeader(header) ==
    [prev_block_hash |-> header.prev_block_hash, round |-> header.height,
     iteration |-> header.iteration]

(* WireMessage::consensus_header.                                          *)
HeaderOf(payload) ==
    CASE payload[1] = "Candidate" -> ToConsensusHeader(payload[2].header)
      [] payload[1] \in {"Validation", "Ratification", "Quorum", "ValidationQuorum"} ->
            payload[2].header
      [] OTHER -> DefaultHeader

MessageFrom(payload) ==
    [version |-> [maj |-> 1, min |-> 0, patch |-> 0],
     header |-> HeaderOf(payload), payload |-> payload]

WriteMessage(m) == WriteAs(MessageW, m)

(* Reading a block ends in Block::new.                                     *)
AfterRead(payload) ==
    IF payload[1] \in {"Block", "Candidate"}
    THEN <<payload[1], BlockNew(payload[2].header, payload[2].txs, payload[2].faults)>>
    ELSE payload

ReadMessage(b) ==
    LET r == ReadAs(MessageR, b)
    IN IF r.ok THEN <<[MessageFrom(AfterRead(r.v.payload)) EXCEPT !.version = r.v.version]>>
       ELSE <<>>

-----------------------------------------------------------------------------
(* Signed messages and the evidence made of them.  A signature is taken to *)
(* be the signer and the text that was signed.                             *)

Sign(signer, text) == <<signer>> \o text
VerifySignature(sig, text) == sig.signature = Sign(sig.signer, text)

SignSeed(topic) ==
    CASE topic = "Validation" -> <<Tok(1, 1)>>
      [] topic = "Ratification" -> <<Tok(1, 2)>>

Signable(topic, m) ==
    WriteAs(ConsensusHeaderW, m.header) \o SignSeed(topic) \o WriteAs(VoteW, m.vote)

(* Mutated form of VoteSignedData: the header's text is left out.          *)
VoteSignedDataNoHeader(kind, d) ==
    (IF kind = "DoubleValidationVote" THEN SignSeed("Validation")
     ELSE SignSeed("Ratification")) \o WriteAs(VoteW, d.data)

VoteSignedData(kind, d) ==
    WriteAs(ConsensusHeaderW, d.header)
        \o (IF kind = "DoubleValidationVote" THEN SignSeed("Validation")
            ELSE SignSeed("Ratification"))
        \o WriteAs(VoteW, d.data)

(* Fault::validate for a pair of votes, heights aside.                     *)
VoteFaultValid(kind, a, b) ==
    /\ a.header = b.header
    /\ VoteSignedData(kind, a) # VoteSignedData(kind, b)
    /\ VerifySignature(a.sig, VoteSignedData(kind, a))
    /\ VerifySignature(b.sig, VoteSignedData(kind, b))

-----------------------------------------------------------------------------
WireInit ==
    /\ origin \in {MessageFrom(p) : p \in Payloads}
    /\ meant = origin
    /\ held = <<origin>>
    /\ wire = <<>>
    /\ cut = FALSE
    /\ kad = KadHeight
    /\ sends = 0
    /\ record = <<>>

Put(m) ==
    /\ sends < MaxSends
    /\ sends' = sends + 1
    /\ wire' = WriteMessage(m)
    /\ held' = <<>>
    /\ record' = <<>>
    /\ meant' = m

Broadcasts == {"Candidate", "Validation", "Ratification", "Quorum", "ValidationQuorum",
               "Block", "Tx"}

(* Network::broadcast, first by the node that built the message, then by   *)
(* those that received it: one received at height 0 goes no further.       *)
Broadcast ==
    /\ held # <<>> /\ held[1].payload[1] \in Broadcasts
    /\ IF sends = 0 THEN kad' \in 0 .. KadHeight
       ELSE kad > 0 /\ kad' \in 0 .. (kad - 1)
    /\ Put(held[1])
    /\ UNCHANGED <<origin, cut>>

(* send_to_peer and send_to_alive_peers: the nonce makes every sending of  *)
(* a request differ from the earlier ones.                                 *)
SendToPeers ==
    /\ held # <<>> /\ held[1].payload[1] \in {"GetMempool", "GetBlocks", "Inv", "GetResource"}
    /\ sends = 0
    /\ Put(IF held[1].payload[1] \in {"GetMempool", "GetBlocks"}
           THEN [held[1] EXCEPT !.payload[2].nonce = sends + 1] ELSE held[1])
    /\ UNCHANGED <<origin, cut, kad>>

(* GetResource::clone_with_hop_decrement.                                  *)
HopDecrement(req) ==
    IF req.hops_limit <= 1 THEN <<>>
    ELSE <<[req EXCEPT !.hops_limit = @ - 1]>>

(* A receiver without the resource passes the request on.                  *)
Forward ==
    /\ held # <<>> /\ held[1].payload[1] = "GetResource" /\ sends > 0
    /\ LET next == HopDecrement(held[1].payload[2])
       IN next # <<>> /\ Put(MessageFrom(<<"GetResource", next[1]>>))
    /\ UNCHANGED <<origin, cut, kad>>

(* Kadcast delivers only a part of the bytes.                              *)
Cut ==
    /\ wire # <<>> /\ ~cut
    /\ \E n \in 0 .. (Len(wire) - 1) : wire' = SubSeq(wire, 1, n)
    /\ cut' = TRUE
    /\ UNCHANGED <<origin, meant, held, kad, sends, record>>

(* on_message: bytes that cannot be read are dropped.                      *)
Receive ==
    /\ held = <<>> /\ record = <<>> /\ (wire # <<>> \/ cut)
    /\ held' = ReadMessage(wire)
    /\ wire' = <<>>
    /\ UNCHANGED <<origin, meant, cut, kad, sends, record>>

(* A quorum's attestation completes the candidate into a block message.    *)
Attach ==
    /\ held # <<>> /\ held[1].payload[1] = "Candidate"
    /\ meant' = MessageFrom(<<"Block", SetAttestation(meant.payload[2], NewAtt)>>)
    /\ held' = <<MessageFrom(<<"Block", SetAttestation(held[1].payload[2], NewAtt)>>)>>
    /\ UNCHANGED <<origin, wire, cut, kad, sends, record>>

(* store_block: the header with the ids, and each transaction and fault.   *)
Spent(tx, i) ==
    [inner |-> tx, block_height |-> 1, gas_spent |-> 1,
     err |-> IF i = 1 THEN <<"None", <<>>>> ELSE <<"Some", <<7>>>>]

Store ==
    /\ held # <<>> /\ held[1].payload[1] = "Block"
    /\ LET b == held[1].payload[2]
       IN record' = <<[light |-> WriteAs(LightBlockW,
                                    [header |-> b.header,
                                     transactions_ids |-> [i \in DOMAIN b.txs |-> <<i>>],
                                     faults_ids |-> [i \in DOMAIN b.faults |-> <<i>>]]),
                       txs |-> [i \in DOMAIN b.txs |-> WriteSpent(Spent(b.txs[i], i))],
                       faults |-> [i \in DOMAIN b.faults |-> WriteAs(FaultW, b.faults[i])],
                       label |-> WriteAs(LabelW, <<"Attested", b.header.height>>)]>>
    /\ held' = <<>>
    /\ UNCHANGED <<origin, meant, wire, cut, kad, sends>>

(* Ledger::block and block_label_by_height: the block again.               *)
Load ==
    /\ record # <<>>
    /\ LET light == ReadAs(LightBlockR, record[1].light)
           txs == [i \in DOMAIN light.v.transactions_ids |-> ReadSpent(record[1].txs[i])]
           faults == [i \in DOMAIN light.v.faults_ids |-> ReadAs(FaultR, record[1].faults[i])]
       IN held' = IF /\ light.ok
                     /\ \A i \in DOMAIN txs : txs[i].ok
                     /\ \A i \in DOMAIN faults : faults[i].ok
                     /\ ReadAs(LabelR, record[1].label).ok
                  THEN <<MessageFrom(<<"Block",
                           BlockNew(light.v.header,
                                    [i \in DOMAIN txs |-> txs[i].v.inner],
                                    [i \in DOMAIN faults |-> faults[i].v])>>)>>
                  ELSE <<>>
    /\ record' = <<>>
    /\ UNCHANGED <<origin, meant, wire, cut, kad, sends>>

WireNext ==
    \/ Broadcast
    \/ SendToPeers
    \/ Forward
    \/ Cut
    \/ Receive
    \/ Attach
    \/ Store
    \/ Load

WireSpec == WireInit /\ [][WireNext]_wireVars

-----------------------------------------------------------------------------
(* Whatever the number of hops, and even after a stay in a node's          *)
(* database, a node that holds the message holds exactly what was built,   *)
(* changed only by the hop counts and attestations nodes put in on         *)
(* purpose (the write and read functions of every type).                   *)
MessagesSurvive ==
    /\ held # <<>> /\ ~cut => held[1] = meant
    /\ (~cut /\ wire = <<>> /\ record = <<>>) => held # <<>>

(* No message cut short in transit is ever taken for a message: every read *)
(* of a type insists on all its bytes (read_exact).                        *)
TruncatedRefused == cut => held = <<>>

(* The hash of a block is that of its hashable fields at every node, also  *)
(* after the attestation has been attached (marshal_hashable, Block::new). *)
HashCommits ==
    held # <<>> /\ held[1].payload[1] \in {"Block", "Candidate"}
        => held[1].payload[2].header.hash = HashOf(held[1].payload[2].header)

(* Two different votes of one provisioner for one step, as any node        *)
(* received them, are evidence a verifier accepts as a double vote of that *)
(* step and of no other: what Fault::get_signed_data rebuilds is what the  *)
(* provisioner signed.                                                     *)
EvidenceVerifies ==
    held # <<>> /\ sends > 0 /\ held[1].payload[1] \in {"Validation", "Ratification"} =>
        LET topic == held[1].payload[1]
            m == held[1].payload[2]
            Data(vote) == [header |-> m.header, data |-> vote,
                           sig |-> [signer |-> m.sign_info.signer,
                                    signature |-> Sign(m.sign_info.signer,
                                        Signable(topic, [m EXCEPT !.vote = vote]))]]
            own == [header |-> m.header, data |-> m.vote, sig |-> m.sign_info]
        IN \A vote \in Votes, kind \in {"DoubleValidationVote", "DoubleRatificationVote"} :
               VoteFaultValid(kind, own, Data(vote))
                   <=> vote # m.vote /\ kind = (IF topic = "Validation"
                                                THEN "DoubleValidationVote"
                                                ELSE "DoubleRatificationVote")

(* A message is read as it was built, or refused when it was cut short.    *)
MessagesIntact == MessagesSurvive /\ TruncatedRefused

(* What was hashed or signed when the message was built is what the last   *)
(* node that holds it hashes, or accepts as evidence.                      *)
SignedDataVerifies == HashCommits /\ EvidenceVerifies
=============================================================================
