------------------------------ MODULE MC_CmosSub ------------------------------
(* Two of the four subscriptions, which name the same topic, and the one   *)
(* publisher of it that the installation has, the HMI.                     *)
EXTENDS CmosSub

\* The filters of cmos_sub_thread().
Subscriptions ==
  [operation       |-> [state |-> "", type |-> "command", key |-> "inv_operation_commands"],
   frequency_write |-> [state |-> "", type |-> "command", key |-> "inv_frequency_write_commands"],
   fault_control   |-> [state |-> "", type |-> "command", key |-> "inv_fault_Control_commands"],
   main_pump       |-> [state |-> "", type |-> "ctrl",    key |-> "main_pump"]]

\* Every message with one of the types and keys in use, and others, reaches
\* at most one handler, which is given the value; a command reaches one.
ASSUME RoutedOnce ==
  \A state \in {"", "Alive"}, type \in {"", "command", "ctrl"},
     key \in {"", "other"} \cup {Subscriptions[h].key : h \in DOMAIN Subscriptions} :
    LET m == [state |-> state, type |-> type, key |-> key, value |-> "5"]
        takers == {h \in DOMAIN Subscriptions :
                     HandleLine(Subscriptions[h], m) # "nothing"}
    IN  /\ takers = {h \in DOMAIN Subscriptions :
                       Subscriptions[h].type = type /\ Subscriptions[h].key = key}
        /\ Cardinality(takers) <= 1
        /\ \A h \in takers : HandleLine(Subscriptions[h], m) = "5"
=============================================================================
