\* Two senders, two messages each, a queue of depth 2, one blocking receiver.
CONSTANTS
    Senders = {a, b}
    maxMessages = 2
    MaxSends = 2
    Waits = {"poll", "forever"}
SPECIFICATION FairSpec
INVARIANTS DeliveredInOrder OneWakeup SleeperWakes
PROPERTY SleeperRuns
\* A receiver blocked on an empty port with every message sent waits for ever.
CHECK_DEADLOCK FALSE
