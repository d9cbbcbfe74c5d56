CONSTANTS
  Path = {batch, live}
  Quote <- mcQuote
  Scale = 2
  Trade <- mcTrade
  BandK = 2
  Resend = FALSE
SPECIFICATION HistSpec
INVARIANT PocIsArgmax
INVARIANT ReductionsMatchTrades
