---------------------------- MODULE MCDryRunTrading ----------------------------
(* One token traded by two strategies, the market maker and a momentum      *)
(* strategy, over two windows.  At most three signals reach the executor.   *)
EXTENDS DryRunTrading

MCTraders == {"mm", "momentum"}
MCStrategies == MCTraders \cup SystemSources
MCMarkets == (1..LastWindow) \X Sides
MCKeys == {"stoikov_mm", "btc5m", "system"}
MCKeyOf == [s \in MCStrategies |->
              IF s = "mm" THEN "stoikov_mm" ELSE IF s = "momentum" THEN "btc5m" ELSE "system"]
MCBudget == [k \in MCKeys |-> IF k = "btc5m" THEN 230 ELSE 200]
===============================================================================
