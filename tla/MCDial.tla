------------------------------- MODULE MCDial -------------------------------
(***************************************************************************)
(* A box behind one jump host, or in front of it. The box has two host     *)
(* keys and takes the last key it would be offered; the agent holds a key  *)
(* that is on disk too.                                                    *)
(***************************************************************************)
EXTENDS Dial

CONSTANTS jump, box, agentKey, diskKey, lockedKey, tokenKey

MCHost == {jump, box}
MCKey == {agentKey, diskKey, lockedKey, tokenKey}
Config(jumps, keys, strict) == [jumps |-> jumps, keys |-> keys, only |-> FALSE, strict |-> strict]
MCConfigured == [h \in MCHost |-> Config(<<>>, IF h = jump THEN <<diskKey>> ELSE <<>>, Unset)]
Flags(jumps, keys, mode, terminal, wait, interface) ==
  [jumps |-> jumps, keys |-> keys, mode |-> mode, terminal |-> terminal, wait |-> wait,
   interface |-> interface]
MCOptions == {Flags(<<jump>>, <<>>, Unset, TRUE, TRUE, FALSE),
              Flags(<<>>, <<lockedKey>>, "accept-new", FALSE, TRUE, FALSE),
              Flags(<<>>, <<>>, Unset, TRUE, FALSE, FALSE),
              Flags(<<jump>>, <<>>, "yes", TRUE, FALSE, FALSE),
              Flags(<<jump>>, <<tokenKey>>, "no", TRUE, FALSE, FALSE)}
MCThrough == {Flags(<<jump>>, <<>>, "no", FALSE, FALSE, FALSE)}
MCInterface == {Flags(<<>>, <<>>, Unset, TRUE, FALSE, TRUE)}
MCDefaultKeys == <<agentKey, lockedKey, tokenKey>>
MCAgentKeys == <<agentKey>>
MCServed == [h \in MCHost |-> IF h = box THEN {"ed25519", "ecdsa"} ELSE {"ed25519"}]
MCDefaultTypes == <<"ecdsa", "ed25519">>
MCAccepts == [h \in MCHost |-> IF h = box THEN {tokenKey, lockedKey} ELSE {diskKey, agentKey}]
=============================================================================
