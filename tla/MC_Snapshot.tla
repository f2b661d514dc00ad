------------------------------ MODULE MC_Snapshot ------------------------------
(* A chain of two blocks over four addresses, one of them ignored.         *)
EXTENDS Snapshot

\* 'u' keys: <<'u', type, hashBytes, output>>.
MCUnspentAt ==
    (0 :> (<<117,1,1,1>> :> 2))
    @@ (1 :> (<<117,1,1,1>> :> 2 @@ <<117,1,2,1>> :> 2 @@ <<117,2,1,1>> :> 3))
    @@ (2 :> (<<117,1,2,1>> :> 2 @@ <<117,1,2,2>> :> 1 @@ <<117,1,3,1>> :> 3
              @@ <<117,2,1,1>> :> 3))

\* 'z' sorts after 'u'; 't', 'p', 'l' (1 byte), 'f' (5 bytes), 'b' and 'R' before.
MCKeyBytes ==
    <<122,1>> :> 33 @@ <<116,1>> :> 33 @@ <<112,1,0>> :> 37 @@ <<108>> :> 1
    @@ <<102,0>> :> 5 @@ <<98,1>> :> 33 @@ <<82>> :> 1
MCOtherKeys == DOMAIN MCKeyBytes

MCIgnored == {<<2,1>>}
MCAddrRank == <<1,1>> :> 2 @@ <<1,2>> :> 1 @@ <<1,3>> :> 3 @@ <<2,1>> :> 4
MCTops == {0, 1, 3}
MCGarbage == {0, 5}
=============================================================================
