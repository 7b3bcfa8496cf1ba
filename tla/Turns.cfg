\* Two messages of one session and a budget of one step: a message gets a
\* second task, a continuation, once the newer one has replaced its turn.
CONSTANTS
    m1 = m1
    m2 = m2
    s1 = s1
    t1 = t1
    t2 = t2
    Consumer = Consumer
    NoMsg = NoMsg
    NoTask = NoTask
    NoWorker = NoWorker
    Messages = {m1, m2}
    Sessions = {s1}
    SessionOf <- MCSessionOf
    InTeam <- MCInTeam
    Tasks = {t1, t2}
    MaxSteps = 1
SPECIFICATION FairSpec
CHECK_DEADLOCK FALSE
INVARIANTS
    AnsweredOnce
    NoStaleBinding
    StepsBounded
    CancelledIsNotAnswered
PROPERTIES
    MessageSettles
