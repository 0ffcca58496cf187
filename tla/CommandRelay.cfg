SPECIFICATION FairSpec
CONSTANTS
    Sendings <- EdgeAndBus
    Tries <- TwiceKeyed
    MaxFaults = 2
    MaxExpired = 1
    Slots = {"h1", "h2"}
    Persistent = TRUE
INVARIANTS SilentOnlyBehindRival
PROPERTIES RefinesDelivery EdgeOrder EdgeDelivers
CHECK_DEADLOCK FALSE
