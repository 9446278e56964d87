--------------------------- MODULE MCPrimarySemp ---------------------------
(* The instance of PrimarySemp for TLC: four modules in the order of their   *)
(* priorities, two brokers and one whose credentials are not plain ASCII.    *)
(* The filters of the explorer (TopicChecks) are checked along with its rows.*)
EXTENDS PrimarySemp, TopicChecks

CONSTANTS c1, c2, c3

ByPriority == <<Connections, QueueBrowser, Discovery, Explorer>>
SomeConfs == {c1, c2, c3}
OneWide == {c3}
=============================================================================
