------------------------------ MODULE MCCardMove ------------------------------
(* Model-checking instances of CardMove. *)
EXTENDS CardMove, TLC, SequencesExt

CONSTANTS t1, t2, t3, dir1, dir2, dir3

OneTransfer    == {t1}
TwoTransfers   == {t1, t2}
ThreeTransfers == {t1, t2, t3}
ThreeDirs      == {dir1, dir2, dir3}
OneDir         == {dir1}
OwnDir         == [t \in Transfers |-> CASE t = t1 -> dir1 [] t = t2 -> dir2 [] OTHER -> dir3]
SameDir        == [t \in Transfers |-> dir1]

\* A card with two directories, a directory in one of them, files at each level, and the
\* configuration.
Tree == {<<>>, <<"D">>, <<"D", "a">>, <<"D", "b">>, <<"D", "b", "c">>, <<"E">>, <<"a">>,
         <<"config">>}
TreeFiles    == {<<"D", "a">>, <<"D", "b", "c">>, <<"a">>, <<"config">>}
TreeRoot     == <<>>
TreeConfig   == <<"config">>
TreeChildren == [n \in Tree |-> {c \in Tree : c # <<>> /\ Front(c) = n}]
TreeUnder    == [n \in Tree |-> {c \in Tree : IsPrefix(n, c)}]
TreeName     == [n \in Tree |-> IF n = <<>> THEN "" ELSE n[Len(n)]]
Nothing      == <<"nothing">>

Reading(paths, ignored) ==
    [state |-> "read", entries |-> {[paths |-> paths, known |-> TRUE]},
     ignored |-> ignored, lax |-> FALSE]

NoConfig == [state |-> "absent", entries |-> {}, ignored |-> {}, lax |-> FALSE]

Plug(config, nodes) ==
    [config |-> config, nodes |-> (nodes \cup {<<>>, <<"config">>}) \
                                  (IF config.state = "absent" THEN {<<"config">>} ELSE {})]

\* D handled as a whole and in part; a path to handle that is not there, D unhandled; two
\* directories with a file of one name each; a card without configuration; everything.
OverlapCard == Plug(Reading({<<"D">>, <<"D", "b">>}, {}),
                    {<<"D">>, <<"D", "b">>, <<"D", "b", "c">>})
LackingCard == Plug(Reading({<<"D", "a">>, <<"config">>}, {}), {<<"D">>})
TwinCard    == Plug(Reading({<<"D", "a">>, <<"a">>}, {}), {<<"D">>, <<"D", "a">>, <<"a">>})
PlainCard   == Plug(NoConfig, {<<"D">>, <<"D", "a">>, <<"a">>})
FullCard    == Plug(Reading({<<"D">>}, {<<"E">>}), Tree)

OverlapCards == {OverlapCard}
MixedCards   == {OverlapCard, LackingCard}
SharedCards  == {TwinCard}
EveryCard    == {OverlapCard, LackingCard, TwinCard, PlainCard, FullCard}
NoEdits      == {}
RootOrD      == {<<>>, <<"D">>}
=============================================================================
