CONSTANTS
  MAX_UART_BUF_LEN = 3
  MAX_UART_TimeOut = 2
  MaxHurried = 2
SPECIFICATION Spec
INVARIANTS TypeOK
PROPERTIES CarriedOnce UdpReplyIsItsOwn Answered
