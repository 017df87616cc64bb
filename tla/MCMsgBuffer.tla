----------------------------- MODULE MCMsgBuffer ----------------------------
EXTENDS MsgBuffer

\* No operation looks at the bytes outside head..tail, or at the last call; the
\* invariant looks at the call that cut the vector.
LiveView ==
    <<buf.head, buf.tail, buf.init, Len(buf.mem), IF Inside(buf) THEN None ELSE call[1],
      [i \in (1..Len(buf.mem)) \cap ((buf.head + 1)..buf.tail) |-> buf.mem[i]]>>

=============================================================================
