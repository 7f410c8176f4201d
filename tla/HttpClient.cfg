CONSTANTS
  SIZE = 6
  Messages <- MessagesChecked
  PACKET = 2
  MAX_MESSAGES = 2
  RECV = 4
  Answers <- AnswersChecked
  Payload <- Update
  MAX_CALLS = 4
  Builds <- BuildsChecked
SPECIFICATION Spec
INVARIANTS LossIsReported PayloadInOrder
PROPERTY CallEnds
