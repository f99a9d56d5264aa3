\* Three consumers that race: two after goai's last store, one whenever it
\* likes, as one does that calls SetTerminal while the call still runs.
CONSTANTS
    MaxSteps = 2
    Consumers = {c1, c2, c3}
    Patient = {c1, c2}
SPECIFICATION WordSpec
INVARIANTS
    OneWinner
PROPERTIES
    CounterNeverRegresses
CHECK_DEADLOCK FALSE
