---------------------------- MODULE MCTradePipeline ----------------------------
(* Small instances of the pipeline: enough orders for three trades, so that *)
(* the middle one can be lost.  The ids are only compared, so they are a    *)
(* symmetry set.                                                            *)
EXTENDS TradePipeline, TLC

MCSymmetry == Permutations(OrderIds \ {ZeroId})
===============================================================================
