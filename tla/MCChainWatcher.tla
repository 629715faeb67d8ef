---------------------------- MODULE MCChainWatcher ----------------------------
(***************************************************************************)
(* Small instances of ChainWatcher for TLC.                                *)
(***************************************************************************)
EXTENDS ChainWatcher, TLC

CONSTANTS alice, bob

\* Blocks without a transfer, payments of the coin and of the token to alice, and
\* transfers of both from alice to bob.
Tx(coin, token) == [coin |-> coin, token |-> token, parties |-> coin \cup token]

TwoAddresses == {alice, bob}

SomeTransactions ==
    {Tx({}, {}), Tx({alice}, {}), Tx({}, {alice}),
     [coin |-> {bob}, token |-> {}, parties |-> {alice, bob}],
     [coin |-> {}, token |-> {bob}, parties |-> {alice, bob}]}

AllNetworks == {"SOLANA", "ETHEREUM", "TRON"}
=============================================================================
