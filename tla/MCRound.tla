------------------------------- MODULE MCRound -------------------------------
(***************************************************************************)
(* Two scenarios of one instance for TLC.  From the deployed state the     *)
(* owner sets and moves everything while agents trade.  And over the       *)
(* funded portfolio of EnvelopeInit, whose owner rests, a watch round is   *)
(* under way while everybody else trades, cancels, releases and settles.   *)
(***************************************************************************)
EXTENDS MCPortfolio, RiskRound

\* The owner of the first scenario never sets the policy of the second.
Watching == globalPolicy = OpenGlobal

\* Everybody's steps but the owner's settings and deposits, at one time.
BetweenReads ==
    /\ TradingNext \/ \E t \in TokenIds, n \in Amounts : WithdrawOutcome(t, n)
    /\ UNCHANGED now

MCSpec ==
    /\ Init \/ EnvelopeInit
    /\ round = Idle
    /\ [][\/ ~Watching /\ Next /\ UNCHANGED round
          \/ Watching /\ BetweenReads /\ Follow
          \/ Watching /\ RoundStep /\ UNCHANGED vars]_roundVars

\* A round the chain has overtaken has nothing more to show here: with one
\* market, the next one starts from a state that an idle one reaches too.
StillTelling == Watching /\ UnderWay => round.moved = {}

=============================================================================
