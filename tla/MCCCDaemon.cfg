CONSTANTS
    Callers = {sender}
    Thread = safety_thread
    Sender = sender
    Channels = {ch1, ch2}
    Unknown = ch9
    Feedbacks = {f0, f1}
    Default = f0
    Emergency = emg
    Timeout = 1
SPECIFICATION FairSpec
INVARIANTS EdgeInv UnsafeNeedsCause
PROPERTIES DangerReachesBus FeedbackRestored
