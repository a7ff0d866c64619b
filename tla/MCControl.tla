------------------------------ MODULE MCControl ------------------------------
(***************************************************************************)
(* Programs whose main has one statement of every form, with every         *)
(* statement of the same kind in it, two levels deep.  Conditions and      *)
(* leaves are external calls with different arguments, so that their order *)
(* is visible; every iteration of a loop makes an external call.           *)
(***************************************************************************)
EXTENDS MCCompiler

(* Leaf statements at place k; a break needs a loop or a switch around it, *)
(* a continue a loop.                                                      *)
Leaves(k, brk, cont) ==
  <<Do(Ext(k)), Return(Num(k))>>
    \o (IF brk THEN <<Break>> ELSE <<>>)
    \o (IF cont THEN <<Continue>> ELSE <<>>)

(* The statements of one level around those that Sub gives for a place.    *)
Around(k, brk, cont, Sub(_, _, _), Last_(_, _, _)) ==
  LET c     == Ext(10 * k)
      one_  == Bin("<", Num(0), Num(1))
      one   == Sub(10 * k + 1, brk, cont)
      two   == Last_(10 * k + 2, brk, cont)
      loop  == Sub(10 * k + 1, TRUE, TRUE)
      loop2 == Last_(10 * k + 2, TRUE, TRUE)
      step  == <<Ext(10 * k + 3)>>
      init  == <<Do(Ext(10 * k + 4))>>
      sw    == Sub(10 * k + 1, TRUE, cont)
      sw2   == Last_(10 * k + 2, TRUE, cont)
      tail  == Do(Ext(10 * k + 5))
  IN  Each(LAMBDA s : If(c, s, <<>>), one)
        \o EachPair(LAMBDA s, t : If(c, s, <<t>>), one, two)
        \o EachPair(LAMBDA s, t : Block(<<s, t>>), one, two)
        \o Each(LAMBDA s : WhileDo(c, s), loop)
        \o EachPair(LAMBDA s, t : WhileDo(c, Block(<<If(Ext(10 * k + 6), s, <<>>),
                                                     t>>)), loop, loop2)
        \o Each(LAMBDA s : ForDo(init, <<c>>, step, <<s>>), loop)
        \o Each(LAMBDA s : ForDo(<<>>, <<>>, step, <<s>>), loop)
        \o Each(LAMBDA s : ForDo(<<>>, <<c>>, <<>>, <<s>>), loop)
        \o Each(LAMBDA s : Switch_(c, <<Case(Num(0)), s, Case(one_), tail>>), sw)
        \o EachPair(LAMBDA s, t : Switch_(c, <<Case(one_), s, Default, t>>),
                    sw, sw2)
        \o EachPair(LAMBDA s, t : Switch_(c, <<Default, s, Case(Num(0)), t, tail>>),
                    sw, sw2)
        \o <<ForDo(<<>>, <<c>>, <<>>, <<>>), Switch_(c, <<>>), Block(<<>>)>>

OneLevel(k, brk, cont) == Around(k, brk, cont, Leaves, Leaves)

Calls(k, brk, cont) == <<Do(Ext(k))>>

TwoLevels(k, brk, cont) == Around(k, brk, cont, OneLevel, Calls)

ControlPrograms ==
  Each(LAMBDA s : Main(<<s, Do(Ext(9)), Return(Num(7))>>),
       TwoLevels(1, FALSE, FALSE))
=============================================================================
