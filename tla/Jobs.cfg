\* Every job over every file of its rows, started on a Friday or a Saturday, with up
\* to two midnights.
SPECIFICATION Spec
CONSTANTS
  Entradas <- MCEntradas
  PrimerosDias = {4, 5}
  UltimoDia = 6
\* a job ends
CHECK_DEADLOCK FALSE
INVARIANTS EveryoneIsAccountedFor DiscountsAndSummariesHold TwoCopiesAgree DeliveryIsWhole SilentClientsNeverSpoke PromisesHaveWorkingDates PromisesAreValidated CallsAreNotLost
