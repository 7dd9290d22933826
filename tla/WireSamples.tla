----------------------------- MODULE WireSamples -----------------------------
(* Sample messages of every topic.                                         *)
EXTENDS WireHops

Ch(i) == [prev_block_hash |-> <<7>>, round |-> 3, iteration |-> i]
WireVotes == {<<"NoCandidate", <<>>>>, <<"Valid", <<5>>>>, <<"Invalid", <<5>>>>,
              <<"NoQuorum", <<>>>>}
Sv(n) == [bitset |-> n, aggregate_signature |-> IF n = 0 THEN <<>> ELSE <<n>>]
Att(r, v) == [result |-> <<r, v>>, validation |-> Sv(1), ratification |-> Sv(2)]
NoAtt == [result |-> <<"Fail", <<"NoQuorum", <<>>>>>>, validation |-> Sv(0),
          ratification |-> Sv(0)]
GoodAtt == Att("Success", <<"Valid", <<5>>>>)
FailedAtt == Att("Fail", <<"NoCandidate", <<>>>>)

Signed(topic, m) ==
    [m EXCEPT !.sign_info = [signer |-> 4, signature |-> Sign(4, Signable(topic, m))]]

Unsigned == [signer |-> 0, signature |-> <<>>]
Validations == {Signed("Validation", [header |-> Ch(i), vote |-> v, sign_info |-> Unsigned]) :
                    i \in {0, 1}, v \in WireVotes}
Results == {[sv |-> Sv(n), vote |-> v, quorum |-> <<q, <<>>>>] :
                n \in {0, 3}, v \in {<<"NoQuorum", <<>>>>, <<"Valid", <<5>>>>},
                q \in {"Valid", "Invalid", "NoCandidate", "NoQuorum"}}
Ratifications ==
    {Signed("Ratification", [header |-> Ch(1), vote |-> r.vote, timestamp |-> 9,
                             validation_result |-> r, sign_info |-> Unsigned]) : r \in Results}

Datas == {<<"None", <<>>>>,
          <<"Call", [contract |-> <<1>>, fn_name |-> <<8, 8>>, fn_args |-> <<>>]>>,
          <<"Memo", <<>>>>, <<"Memo", <<6, 6>>>>,
          <<"Deploy", [bytecode |-> [hash |-> <<2>>, bytes |-> <<3>>], owner |-> <<4>>,
                       init_args |-> <<"Some", <<>>>>, nonce |-> 1]>>,
          <<"Deploy", [bytecode |-> [hash |-> <<2>>, bytes |-> <<>>], owner |-> <<>>,
                       init_args |-> <<"None", <<>>>>, nonce |-> 0]>>}
Moonlights ==
    {<<"Moonlight", [payload |-> [chain_id |-> 1, sender |-> 11, receiver |-> rc,
                                  value |-> 0, deposit |-> 2, gas_limit |-> 3,
                                  gas_price |-> 4, refund_address |-> rf, nonce |-> 5,
                                  data |-> d], signature |-> <<12>>]>> :
        rc \in {11, 12}, rf \in {11, 13}, d \in Datas}
Phoenixes ==
    {<<"Phoenix", [payload |-> [chain_id |-> 1,
                                tx_skeleton |-> [root |-> <<1>>, nullifiers |-> ns,
                                                 max_fee |-> 2, deposit |-> 0],
                                fee |-> [gas_limit |-> 3, gas_price |-> 4,
                                         stealth_address |-> 5, sender |-> 6],
                                data |-> d], proof |-> <<9, 9>>]>> :
        ns \in {<<<<1>>>>, <<<<1>>, <<2>>>>}, d \in Datas}
Tx(inner) == [version |-> 1, type |-> 1, inner |-> inner]
SomeMoonlight == CHOOSE t \in Moonlights : t[2].payload.data[1] = "Memo"
SomePhoenix == CHOOSE t \in Phoenixes : t[2].payload.data[1] = "Call"

VoteFault(kind, topic) ==
    LET D(v) == [header |-> Ch(1), data |-> v,
                 sig |-> [signer |-> 4, signature |->
                            Sign(4, Signable(topic, [header |-> Ch(1), vote |-> v]))]]
    IN <<kind, [a |-> D(<<"NoCandidate", <<>>>>), b |-> D(<<"Valid", <<5>>>>)]>>
Faults == {VoteFault("DoubleValidationVote", "Validation"),
           VoteFault("DoubleRatificationVote", "Ratification"),
           <<"DoubleCandidate",
             [a |-> [header |-> Ch(1), data |-> <<5>>, sig |-> [signer |-> 4, signature |-> <<1>>]],
              b |-> [header |-> Ch(1), data |-> <<6>>, sig |-> [signer |-> 4, signature |-> <<2>>]]]>>}

FailedLists == {<<>>,
                <<<<"Some", [att |-> FailedAtt, pk |-> 21]>>>>,
                [i \in 1 .. MaxFailedIters |->
                    IF i % 2 = 0 THEN <<"None", <<>>>> ELSE <<"Some", [att |-> FailedAtt, pk |-> i]>>]}
NewHeader(failed, cert) ==
    [version |-> 1, height |-> 3, timestamp |-> 100, prev_block_hash |-> <<7>>,
     seed |-> <<3>>, state_hash |-> <<8>>, event_bloom |-> 0, generator_bls_pubkey |-> 4,
     txroot |-> <<9>>, faultroot |-> <<10>>, gas_limit |-> 50,
     iteration |-> Len(failed), prev_block_cert |-> cert, failed_iterations |-> failed,
     att |-> NoAtt, hash |-> <<>>, signature |-> <<>>]
TxLists == {<<>>, <<Tx(SomeMoonlight), Tx(SomePhoenix)>>}
Candidates ==
    {LET b == BlockNew(NewHeader(f, c), txs, fs)
     IN [b EXCEPT !.header.signature = <<4>> \o <<b.header.hash>>] :
        f \in FailedLists, c \in {GoodAtt, NoAtt}, txs \in TxLists,
        fs \in {<<>>} \cup {<<x>> : x \in Faults}}

Invs == {[inv_list |-> l, max_entries |-> 1] :
            l \in {<<>>, <<<<"MempoolTx", <<1>>>>, <<"BlockFromHash", <<2>>>>>>,
                   <<<<"BlockFromHeight", 4>>, <<"CandidateFromHash", <<5>>>>>>,
                   <<<<"CandidateFromIteration", Ch(2)>>, <<"ValidationResult", Ch(3)>>>>}}
Addrs == {<<"V4", [ip |-> 1, port |-> 2]>>, <<"V6", [ip |-> 1, port |-> 2]>>}

SamplePayloads ==
    {<<"Validation", v>> : v \in Validations}
    \cup {<<"Ratification", r>> : r \in Ratifications}
    \cup {<<"Quorum", [header |-> Ch(1), att |-> Att(k, v)]>> :
             k \in {"Fail", "Success"}, v \in WireVotes}
    \cup {<<"ValidationQuorum", [header |-> Ch(1), result |-> r]>> : r \in Results}
    \cup {<<"Candidate", b>> : b \in Candidates}
    \cup {<<"Tx", Tx(t)>> : t \in Moonlights \cup Phoenixes}
    \cup {<<"Inv", i>> : i \in Invs}
    \cup {<<"GetMempool", [nonce |-> 0]>>, <<"GetBlocks", [locator |-> <<7>>, nonce |-> 0]>>}
    \cup {<<"GetResource", [inventory |-> i, requester_addr |-> a, ttl_as_sec |-> 5,
                            hops_limit |-> h]>> : i \in Invs, a \in Addrs, h \in 1 .. 3}
=============================================================================
