SPECIFICATION FairSpec
CONSTANTS
  Clients = {c1, c2}
  Processor = c1
INVARIANTS TypeOK ClientsMeetNothingClosed AnsweredBeforeExit CountedAsSent SpansReachExporter ClosedAtExit
PROPERTIES StopsWhenTold ImplementsGracefulService
