------------------------------- MODULE MCPublisher ------------------------------
(* Three observers that subscribe up to four times, null and repetitions included, *)
(* and leave as they like, during three dishes.                                     *)
EXTENDS KitchenEventPublisher

CONSTANTS fulfillment, satisfaction, customer

MCObservers == {fulfillment, satisfaction, customer}
================================================================================
