------------------------------- MODULE MCXArapuca -------------------------------
(* Two boards, fragments of up to three 2 ns samples, seconds of 40 ns:    *)
(* a fragment ends anywhere around the end of the first second.            *)
EXTENDS XArapucaDecoder

Fragment(b, len, end, post) == [board |-> b, len |-> len, end |-> end, post |-> post]

(* A trigger's fragment and what follows it after a gap.                   *)
Chain(b, len, e, g, n) ==
  <<Fragment(b, len, e, n), Fragment(b, 1, e + g + 2, n), Fragment(b, 2, e + g + 6, n)>>

Ends == {31, 34, 37, 38, 39, 40, 41, 44}

Contained ==
  {<<Chain(0, len, e, g, n), <<Fragment(b, 3, e2, 0)>>>> :
     len \in {1, 3}, e \in Ends, g \in {0, 1, 2, 5}, n \in {0, 3}, b \in {1, 2}, e2 \in {42}}
  \cup {<<<<Fragment(1, 3, e, n), Fragment(1, 3, e + g, n)>>, <<Fragment(0, 2, e, n)>>>> :
          e \in Ends, g \in {3, 6, 7}, n \in {0, 6}}
Together ==
  {<<Chain(0, 3, e, g, n) \o <<Fragment(1, 3, e, n)>> >> : e \in Ends, g \in {0, 3}, n \in {0, 3}}
  \cup {<<Chain(1, 3, e, g, n) \o end >> :
          e \in Ends, g \in {0, 3}, n \in {0, 3}, end \in {<<>>, <<Fragment(2, 3, 60, 0)>>}}

Events ==
  {[groups |-> c, frame |-> f, ref |-> 35] :
     c \in Contained, f \in {"none", "tdc"}}
  \cup {[groups |-> c, frame |-> f, ref |-> 45] :
          c \in Together, f \in {"none", "ptb"}}
  \cup {[groups |-> <<>>, frame |-> f, ref |-> 0] : f \in {"missing", "none"}}
=============================================================================
