---------------------------- MODULE MCProxyDaemon ---------------------------
(* TLC instance of ProxyDaemon: a key that is renewed and joined by a      *)
(* second one; an event stream that repeats its totals, a JSON answer that *)
(* just fits the capture buffer, one that does not, and a compressed one.  *)
EXTENDS ProxyDaemon

key1 == [id |-> "k1", secret |-> "old"]
key1b == [id |-> "k1", secret |-> "new"]
key2 == [id |-> "k2", secret |-> "old"]

MCPools == {<<key1>>, <<key1b, key2>>}

stream == [sse |-> TRUE, plain |-> TRUE,
           lines |-> <<Doc(Zero, <<1, 1>>, Zero), Doc(<<0, 1>>, Zero, Zero)>>]
fits == [sse |-> FALSE, plain |-> TRUE, chunks |-> <<2>>, doc |-> Doc(<<1, 1>>, Zero, Zero)]
tooLong == [fits EXCEPT !.chunks = <<1, 2>>]
zipped == [stream EXCEPT !.plain = FALSE]

MCBodies == {stream, fits, tooLong, zipped}
MCUsages == (0..1) \X (0..3)

(* The process is started with one key. *)
MCInit == keys = <<key1>> /\ DaemonInit

MCSpec == MCInit /\ [][DaemonNext]_allVars /\ DaemonFairness
=============================================================================
