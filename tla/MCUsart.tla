------------------------------ MODULE MCUsart ------------------------------
(* Usart for TLC: the programs that use the channel.  With U8MAX = 3 a buffer
   of 4 bytes has the size 0 that 256 bytes have in a u8. *)
EXTENDS Usart

Sender == [calls |-> {"SendByteAsynchronous", "SendBufferZeroCopy"}, sizes |-> {1, 2, 4},
           waitTx |-> {"SendBufferZeroCopy"}, waitRx |-> {}, arrivals |-> 0]

Receiver == [calls |-> {"ReceiveBufferAsynchronous"}, sizes |-> {1, 2, 4},
             waitTx |-> {}, waitRx |-> {}, arrivals |-> 5]

Mixed == [calls |-> SendCalls \cup ReceiveCalls, sizes |-> {1, 2},
          waitTx |-> {"SendBufferZeroCopy"}, waitRx |-> {}, arrivals |-> 1]

(* Sends and receives, begun only while nothing is in progress in the other
   direction. *)
TakingTurns == [calls |-> {"SendByteAsynchronous", "SendBufferZeroCopy", "SendByteSynchByTime",
                           "ReceiveBufferAsynchronous", "ReceiveByteSynchByTime"},
                sizes |-> {1, 2},
                waitTx |-> {"SendBufferZeroCopy", "ReceiveBufferAsynchronous"},
                waitRx |-> {"SendByteAsynchronous", "SendBufferZeroCopy"},
                arrivals |-> 2]

(* One call at a time: a call is made when both directions are idle. *)
Alternating == [calls |-> {"SendByteAsynchronous", "ReceiveBufferAsynchronous"}, sizes |-> {1},
                waitTx |-> {"SendByteAsynchronous", "ReceiveBufferAsynchronous"},
                waitRx |-> {"SendByteAsynchronous", "ReceiveBufferAsynchronous"}, arrivals |-> 1]

AllUses == {Sender, Receiver, Mixed, TakingTurns}
OneAtATime == {Alternating}
=============================================================================
