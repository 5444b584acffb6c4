---------------------------- MODULE MCSabreSwap ----------------------------
(***************************************************************************)
(* Devices that are connected in different ways, and two that routing      *)
(* cannot always serve: a qubit without couplings, and two halves that no  *)
(* coupling joins.  Circuits narrower than the device leave qubits that    *)
(* hold no wire.  The limits are small enough to be reached.               *)
(***************************************************************************)
EXTENDS SabreSwap

Line4  == DeviceOf({<<0, 1>>, <<1, 2>>, <<2, 3>>})
Ring4  == DeviceOf({<<0, 1>>, <<1, 2>>, <<2, 3>>, <<3, 0>>})
Star4  == DeviceOf({<<0, 1>>, <<0, 2>>, <<0, 3>>})
Gap4   == DeviceOf({<<0, 1>>, <<1, 3>>})           \* no edge names qubit 2
Split4 == DeviceOf({<<0, 1>>, <<2, 3>>})

MCDevices == {Line4, Ring4, Star4, Gap4, Split4}

Pairs == { <<0, 1>>, <<0, 2>>, <<1, 2>>, <<2, 3>> }

MCCircuits ==
  { CircuitOf(4, <<a, b, c>>) : a, b \in Pairs, c \in {<<0, 3>>, <<1, 2>>} }
  \cup { CircuitOf(4, <<<<0, 1>>, <<2, 3>>, <<1>>, b>>) : b \in {<<0, 3>>, <<3, 1>>} }
  \cup { CircuitOf(3, <<a, b, c>>) :
           a \in {<<0, 1>>, <<0>>}, b \in {<<1, 2>>, <<2>>}, c \in {<<0, 2>>, <<2, 0>>} }

MCLimits == [iterFloor |-> 3, iterPerGate |-> 0, iterPerQubit |-> 1,
             insFloor |-> 5, insPerTwoQ |-> 1, insPerGate |-> 0]
=============================================================================
