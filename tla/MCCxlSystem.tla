---------------------------- MODULE MCCxlSystem ----------------------------
EXTENDS CxlSystem

CONSTANTS a, b

MCTarget == [x \in Block |-> PoolBase]
MCMaxWrites == [n \in Node |-> IF n = 0 THEN 1 ELSE 0]
NoWrites == [n \in Node |-> 0]
=============================================================================
