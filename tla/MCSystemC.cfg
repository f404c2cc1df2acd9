\* The channel as in main.cpp; hw_fifo of two words, the loop for three words; a
\* memory of four words and blocks of three, which wrap around.  The key exchange with
\* digits of four bits, bytes of two, and a prime of eight bits.
SPECIFICATION AnySpec
CONSTANTS
  Size = 4
  Period = 10
  Words = {0, 1, 2, 3, 4}
  FifoSize = 2
  Start = 0
  Constant = 1
  Prints = 3
  NumAddresses = 4
  Block = 3
  Bytes = {b0, b1}
  X = X
  Z = Z
  HalfBits = 2
  DigitLen = 2
  KeyLength = 8
  NumKeyExchange = 2
  Prime1 <- MCPrime1
  Generator1 <- MCGenerator1
  Random <- MCRandom
  PrivateValues <- MCPrivateValues
  BlockLen = 4
  CountLen = 2
  StateLen = 2
  DigestLen = 3
  ByteValues = 3
INVARIANTS
  EveryNumberOnce AssertionsHold
  ArithmeticIsExact AgreedKeyIsShared NoByteTwice DigestOfWhole
PROPERTIES HandshakeIsChannel NothingGetsStuck
\* The loop and the memory's test bench stop in the end.
CHECK_DEADLOCK FALSE
