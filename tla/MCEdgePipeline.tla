---------------------------- MODULE MCEdgePipeline ----------------------------
(* Texts of a call in which a card number is read out in groups.            *)
EXTENDS EdgePipeline

Number(digits) == [i \in DOMAIN digits |-> Digit(digits[i])]

Group == Number(<<4, 2, 4, 2>>)
Half == Group \o Group
Word == Say("word")
Stop == Say("stop")
Name == Say("name")

MCHypotheses ==
  { <<>>, <<Word, Word, Stop>>, <<Name>>,
    <<Say("card")>>, <<Say("card")>> \o Group, <<Say("phone")>>,
    Group, Group \o <<Stop>>, Group \o <<Name>>, Group \o <<Word, Word, Word>>,
    Half, Half \o <<Stop>> \o Number(<<1, 2>>), Number(<<5>>) }
=============================================================================
